---- MODULE Spec2Model ----
(***************************************************************************)
(* Vendor delivery validation: the tar.gz archive reader, the archive      *)
(* comparer and the five-step validation engine of                         *)
(* EnhancedVendorRuleStrategy.check_final_report_from_dataframe.           *)
(*                                                                         *)
(* Strings are sequences of one-character strings.  A template placeholder *)
(* such as {tool_number} is one element of the sequence.  Regular          *)
(* expressions are the subset the configuration uses: literal characters,  *)
(* "." (any character), "$" (end of string), escaped characters produced   *)
(* by re.escape, and "(" which opens a group that is never closed, so that *)
(* re.compile raises re.error.                                             *)
(***************************************************************************)
EXTENDS Integers, Sequences, FiniteSets, TLC

VARIABLES
    archives,            \* compare: path -> archive file on disk
    calls,               \* compare: the compare_files calls made so far, with their results
    config,              \* engine: self.config, the vendor section of config.json
    global_paths,        \* engine: self.global_paths
    _compiled_patterns,  \* engine: VendorConfigLoader._compiled_patterns
    fs,                  \* engine: the files under source_root and target_root
    row,                 \* engine: the DataFrame row passed to the call
    technology,          \* engine: the technology argument of the call
    pc,                  \* engine: position in check_final_report_from_dataframe
    validation_results,  \* engine: the validation_results dict being built
    source_archive,      \* engine: local source_archive
    target_archive,      \* engine: local target_archive
    patterns_to_check,   \* engine: local patterns_to_check
    bypassed_patterns,   \* engine: local bypassed_patterns
    searched,            \* engine: patterns searched in the target archive so far
    trace,               \* engine: the steps that have run, in order
    raised,              \* engine: the last exception raised in or out of the call
    _enhanced_checkpoints, \* registry: EnhancedCheckpointRegistry._enhanced_checkpoints
    registered,          \* registry: number of register calls made so far
    cp_out,              \* registry: the last checkpoint operation and what it returned
    checkers,            \* registry: the OutsourcingQcCheckPoints instances constructed so far
    config_file,         \* loader: the document at config_path, or None when absent
    _config_cache,       \* loader: VendorConfigLoader._config_cache
    loader_out,          \* loader: the loader calls made so far, with their outcomes
    _enhanced_rules,     \* rules: EnhancedVendorRuleRegistry._enhanced_rules
    threads,             \* rules: the position, locals and outcome of each concurrent evaluation
    main_in,             \* main: the input file and environment of a CLI run
    main_pc,             \* main: position in main()
    main_locals,         \* main: the locals of main(): the frame, the failures, the caught exception, the output
    exit_code,           \* main: exit code of the process, None while running
    bday                 \* transformer: a call of TaiwanBusinessDay.add_business_days and its result

cmpVars == <<archives, calls>>
inputVars == <<config, global_paths, fs, row, technology>>
localVars == <<source_archive, target_archive, patterns_to_check, bypassed_patterns>>
engVars == <<config, global_paths, _compiled_patterns, fs, row, technology, pc,
             validation_results, source_archive, target_archive, patterns_to_check,
             bypassed_patterns, searched, trace, raised>>
regVars == <<_enhanced_checkpoints, registered, cp_out, checkers>>
loaderVars == <<config_file, _config_cache, loader_out, _enhanced_rules, threads>>
mainVars == <<main_in, main_pc, main_locals, exit_code, bday>>
restVars == <<regVars, loaderVars, mainVars>>
vars == <<archives, calls, config, global_paths, _compiled_patterns, fs, row, technology, pc,
          validation_results, source_archive, target_archive, patterns_to_check,
          bypassed_patterns, searched, trace, raised, restVars>>

----------------------------------------------------------------------------
(* Bounds *)

MaxCalls == 2
MaxPatterns == 2
MaxRegistered == 4
MaxRows == 2
MaxLoaderCalls == 3
DaySpan == 13
MaxSteps == 6
MaxWrites == 1

----------------------------------------------------------------------------
(* Python values *)

None == <<"None">>

Msg(text, args) == [text |-> text, args |-> args]

Ok(v) == [ok |-> TRUE, val |-> v, exc |-> "", arg |-> <<>>]

Raise(exc, arg) == [ok |-> FALSE, val |-> None, exc |-> exc, arg |-> arg]

----------------------------------------------------------------------------
(* str methods *)

lower_char(c) ==
    CASE c = "R" -> "r"
      [] c = "V" -> "v"
      [] c = "X" -> "x"
      [] OTHER -> c

lower(s) == [i \in 1..Len(s) |-> lower_char(s[i])]

startswith(s, prefix) ==
    /\ Len(prefix) <= Len(s)
    /\ SubSeq(s, 1, Len(prefix)) = prefix

endswith(s, suffix) ==
    /\ Len(suffix) <= Len(s)
    /\ SubSeq(s, Len(s) - Len(suffix) + 1, Len(s)) = suffix

Placeholders == {"{tool_number}", "{tool_column}", "{source_root}", "{target_root}", "{version}"}

RECURSIVE FormatFrom(_, _, _)
FormatFrom(template, i, kwargs) ==
    IF i > Len(template) THEN Ok(<<>>)
    ELSE IF template[i] \in Placeholders /\ template[i] \notin DOMAIN kwargs
         THEN Raise("KeyError", <<template[i]>>)
         ELSE LET rest == FormatFrom(template, i + 1, kwargs)
                  piece == IF template[i] \in Placeholders
                           THEN kwargs[template[i]]
                           ELSE <<template[i]>>
              IN  IF rest.ok THEN Ok(piece \o rest.val) ELSE rest

format(template, kwargs) == FormatFrom(template, 1, kwargs)

----------------------------------------------------------------------------
(* re *)

re_escape_char(c) ==
    CASE c = "." -> "\\."
      [] c = "$" -> "\\$"
      [] c = "(" -> "\\("
      [] OTHER -> c

re_escape(s) == [i \in 1..Len(s) |-> re_escape_char(s[i])]

re_compile(pattern, ignorecase) ==
    IF \E i \in 1..Len(pattern) : pattern[i] = "("
    THEN Raise("re.error", <<"missing ), unterminated subpattern">>)
    ELSE Ok([pattern |-> pattern, ignorecase |-> ignorecase])

TokenMatches(tok, c, ignorecase) ==
    CASE tok = "."   -> TRUE
      [] tok = "\\." -> c = "."
      [] tok = "\\$" -> c = "$"
      [] tok = "\\(" -> c = "("
      [] OTHER -> IF ignorecase THEN lower_char(tok) = lower_char(c) ELSE tok = c

RECURSIVE MatchFrom(_, _, _, _)
MatchFrom(compiled, j, s, i) ==
    IF j > Len(compiled.pattern) THEN TRUE
    ELSE IF compiled.pattern[j] = "$"
         THEN i = Len(s) + 1 /\ MatchFrom(compiled, j + 1, s, i)
         ELSE /\ i <= Len(s)
              /\ TokenMatches(compiled.pattern[j], s[i], compiled.ignorecase)
              /\ MatchFrom(compiled, j + 1, s, i + 1)

re_match(compiled, s) == MatchFrom(compiled, 1, s, 1)

re_search(compiled, s) == \E i \in 1..(Len(s) + 1) : MatchFrom(compiled, 1, s, i)

----------------------------------------------------------------------------
(* Sequence helpers *)

Map(s, F(_)) == [i \in 1..Len(s) |-> F(s[i])]

LastIndex(s, Test(_)) ==
    LET hits == {i \in 1..Len(s) : Test(s[i])}
    IN  IF hits = {} THEN 0 ELSE CHOOSE i \in hits : \A k \in hits : k <= i

----------------------------------------------------------------------------
(* tar_file_reader.py: TarFileReader.                                      *)
(* An archive file on disk is [path, exists, readable, members]; a member  *)
(* is [name, isfile, content, damaged].  member.size is Len(content).      *)

basename(name) ==
    LET k == LastIndex(name, LAMBDA c : c = "/")
    IN  SubSeq(name, k + 1, Len(name))

TarFileReader(archive) ==
    IF ~archive.exists
    THEN Raise("FileNotFoundError", <<"Archive file not found: ", archive.path>>)
    ELSE Ok(archive)

_open_archive(reader) ==
    IF ~reader.readable
    THEN Raise("ReadError", <<"not a gzip file">>)
    ELSE Ok(reader.members)

_get_file_members(reader) ==
    LET tar == _open_archive(reader)
    IN  IF ~tar.ok THEN tar
        ELSE Ok(SelectSeq(tar.val, LAMBDA member : member.isfile))

FileTuple(member) ==
    [path |-> member.name, name |-> basename(member.name), size |-> Len(member.content)]

search_files_by_pattern(reader, compiled_pattern) ==
    LET members == _get_file_members(reader)
    IN  IF ~members.ok THEN members
        ELSE Ok(Map(SelectSeq(members.val,
                              LAMBDA member : re_search(compiled_pattern, member.name)),
                    FileTuple))

search_files_by_extension(reader, extension) ==
    LET ext == IF ~startswith(extension, <<".">>) THEN <<".">> \o extension ELSE extension
        pattern == re_compile(re_escape(ext) \o <<"$">>, TRUE)
    IN  IF ~pattern.ok THEN pattern
        ELSE search_files_by_pattern(reader, pattern.val)

read_file(reader, file_path) ==
    LET tar == _open_archive(reader)
    IN  IF ~tar.ok THEN tar
        ELSE LET k == LastIndex(tar.val, LAMBDA member : member.name = file_path)
             IN  IF k = 0 THEN Ok(None)
                 ELSE IF ~tar.val[k].isfile THEN Ok(None)
                 ELSE IF tar.val[k].damaged
                      THEN Raise("ReadError", <<"unexpected end of data">>)
                      ELSE Ok(tar.val[k].content)

----------------------------------------------------------------------------
(* tar_compare.py: TarFileComparer *)

TarComparisonResult(success, message, source_file, target_file) ==
    [success |-> success, message |-> message,
     source_file |-> source_file, target_file |-> target_file]

_normalize_extension(extension) ==
    lower(IF ~startswith(extension, <<".">>) THEN <<".">> \o extension ELSE extension)

ContentEqual_prefix(source_content, target_content) == startswith(target_content, source_content)

ContentEqual(source_content, target_content) == source_content = target_content

CompareException_reraise(e) ==
    IF e.exc = "FileNotFoundError"
    THEN Ok(TarComparisonResult(FALSE, Msg("Archive file not found: ", <<e.exc, e.arg>>),
                                None, None))
    ELSE e

CompareException(e) ==
    IF e.exc = "FileNotFoundError"
    THEN Ok(TarComparisonResult(FALSE, Msg("Archive file not found: ", <<e.exc, e.arg>>),
                                None, None))
    ELSE Ok(TarComparisonResult(FALSE, Msg("Error during comparison: ", <<e.exc, e.arg>>),
                                None, None))

CompareContents(source_reader, target_reader, source_files, target_files) ==
    LET source_file_path == source_files[1].path
        target_file_path == target_files[1].path
        source_content == read_file(source_reader, source_file_path)
        target_content == read_file(target_reader, target_file_path)
    IN  IF ~source_content.ok THEN source_content
        ELSE IF ~target_content.ok THEN target_content
        ELSE IF source_content.val = None
             THEN Ok(TarComparisonResult(FALSE,
                      Msg("Failed to read source file: ", <<source_file_path>>), None, None))
        ELSE IF target_content.val = None
             THEN Ok(TarComparisonResult(FALSE,
                      Msg("Failed to read target file: ", <<target_file_path>>), None, None))
        ELSE IF ContentEqual(source_content.val, target_content.val)
             THEN Ok(TarComparisonResult(TRUE,
                      Msg("Files are identical: source matches target",
                          <<source_file_path, target_file_path>>),
                      source_file_path, target_file_path))
             ELSE Ok(TarComparisonResult(FALSE,
                      Msg("Files differ: source (bytes) vs target (bytes)",
                          <<source_file_path, Len(source_content.val),
                            target_file_path, Len(target_content.val)>>),
                      source_file_path, target_file_path))

CheckCandidates_first(extension, source, target, source_reader, target_reader, source_files, target_files) ==
    IF source_files = <<>>
    THEN Ok(TarComparisonResult(FALSE,
             Msg("No files with extension found in source archive: ",
                 <<extension, source.path>>), None, None))
    ELSE IF target_files = <<>>
    THEN Ok(TarComparisonResult(FALSE,
             Msg("No files with extension found in target archive: ",
                 <<extension, target.path>>), None, None))
    ELSE IF Len(source_files) > 1
    THEN Ok(TarComparisonResult(FALSE,
             Msg("Multiple files with extension found in source archive. Found: ",
                 <<extension, Map(source_files, LAMBDA f : f.path)>>), None, None))
    ELSE CompareContents(source_reader, target_reader, source_files, target_files)

CheckCandidates(extension, source, target, source_reader, target_reader, source_files, target_files) ==
    IF source_files = <<>>
    THEN Ok(TarComparisonResult(FALSE,
             Msg("No files with extension found in source archive: ",
                 <<extension, source.path>>), None, None))
    ELSE IF target_files = <<>>
    THEN Ok(TarComparisonResult(FALSE,
             Msg("No files with extension found in target archive: ",
                 <<extension, target.path>>), None, None))
    ELSE IF Len(source_files) > 1
    THEN Ok(TarComparisonResult(FALSE,
             Msg("Multiple files with extension found in source archive. Found: ",
                 <<extension, Map(source_files, LAMBDA f : f.path)>>), None, None))
    ELSE IF Len(target_files) > 1
    THEN Ok(TarComparisonResult(FALSE,
             Msg("Multiple files with extension found in target archive. Found: ",
                 <<extension, Map(target_files, LAMBDA f : f.path)>>), None, None))
    ELSE CompareContents(source_reader, target_reader, source_files, target_files)

CompareTry(source, target, extension) ==
    LET source_reader == TarFileReader(source)
        target_reader == TarFileReader(target)
    IN  IF ~source_reader.ok THEN source_reader
        ELSE IF ~target_reader.ok THEN target_reader
        ELSE LET source_files == search_files_by_extension(source_reader.val, extension)
                 target_files == search_files_by_extension(target_reader.val, extension)
             IN  IF ~source_files.ok THEN source_files
                 ELSE IF ~target_files.ok THEN target_files
                 ELSE CheckCandidates(extension, source, target,
                                      source_reader.val, target_reader.val,
                                      source_files.val, target_files.val)

compare_files(source, target, ext) ==
    LET extension == _normalize_extension(ext)
        body == CompareTry(source, target, extension)
    IN  IF body.ok THEN body ELSE CompareException(body)

----------------------------------------------------------------------------
(* Archives and extensions the comparer is run on *)

File(name, content) == [name |-> name, isfile |-> TRUE, content |-> content, damaged |-> FALSE]

Damaged(name, content) == [name |-> name, isfile |-> TRUE, content |-> content, damaged |-> TRUE]

Dir(name) == [name |-> name, isfile |-> FALSE, content |-> <<>>, damaged |-> FALSE]

NameRctl == <<"k", ".", "r">>

NameUpper == <<"d", "/", "j", ".", "R">>

NameNoDot == <<"k", "r">>

MemberLists ==
    { <<>>,
      <<File(NameRctl, <<"a">>)>>,
      <<File(NameRctl, <<"b">>)>>,
      <<File(NameRctl, <<"a", "b">>)>>,
      <<File(NameRctl, <<>>)>>,
      <<File(NameUpper, <<"a">>)>>,
      <<File(NameRctl, <<"a">>), File(NameUpper, <<"a">>)>>,
      <<File(NameNoDot, <<"a">>)>>,
      <<Damaged(NameRctl, <<"a">>)>>,
      <<File(NameRctl, <<"a">>), Dir(NameRctl)>>,
      <<Dir(NameRctl)>> }

ArchiveFiles(path) ==
    { [path |-> path, exists |-> TRUE, readable |-> TRUE, members |-> m] : m \in MemberLists }
    \cup { [path |-> path, exists |-> FALSE, readable |-> FALSE, members |-> <<>>],
           [path |-> path, exists |-> TRUE, readable |-> FALSE, members |-> <<>>] }

Paths == {"A", "B"}

Extensions == { <<"r">>, <<".", "R">>, <<"x">> }

----------------------------------------------------------------------------
(* The validation engine is idle while the comparer is exercised *)

EngineIdle ==
    /\ config = None
    /\ global_paths = None
    /\ _compiled_patterns = <<>>
    /\ fs = None
    /\ row = None
    /\ technology = None
    /\ pc = "idle"
    /\ validation_results = None
    /\ source_archive = None
    /\ target_archive = None
    /\ patterns_to_check = <<>>
    /\ bypassed_patterns = <<>>
    /\ searched = <<>>
    /\ trace = <<>>
    /\ raised = None

(* The checkpoint registry, the configuration loader and the CLI are idle  *)
(* while the comparer or the validation engine is exercised                *)

RegistryIdle ==
    /\ _enhanced_checkpoints = <<>>
    /\ registered = 0
    /\ cp_out = None
    /\ checkers = {}

LoaderIdle ==
    /\ config_file = None
    /\ _config_cache = None
    /\ loader_out = <<>>
    /\ _enhanced_rules = <<>>
    /\ threads = <<>>

MainIdle ==
    /\ main_in = None
    /\ main_pc = "idle"
    /\ main_locals = None
    /\ bday = None
    /\ exit_code = None

InitCmp ==
    /\ archives \in [Paths -> UNION {ArchiveFiles(p) : p \in Paths}]
    /\ \A p \in Paths : archives[p].path = p
    /\ calls = <<>>
    /\ EngineIdle
    /\ RegistryIdle
    /\ LoaderIdle
    /\ MainIdle

Compare(source_path, target_path, extension) ==
    /\ Len(calls) < MaxCalls
    /\ calls' = Append(calls,
                       [source_path |-> source_path, target_path |-> target_path,
                        extension |-> extension,
                        outcome |-> compare_files(archives[source_path],
                                                  archives[target_path], extension)])
    /\ UNCHANGED <<archives, engVars, restVars>>

NextCmp == \E s \in Paths, t \in Paths, e \in Extensions : Compare(s, t, e)

SpecCmp == InitCmp /\ [][NextCmp]_vars

----------------------------------------------------------------------------
(* What the archives hold, stated without the reader's regular expressions *)

Dotted(ext) == IF startswith(ext, <<".">>) THEN ext ELSE <<".">> \o ext

HasExtension(name, ext) == endswith(lower(name), lower(Dotted(ext)))

Candidates(archive, ext) ==
    SelectSeq(archive.members, LAMBDA m : m.isfile /\ HasExtension(m.name, ext))

Listable(archive) == archive.exists /\ archive.readable

EntryReadable(archive, m) ==
    /\ ~m.damaged
    /\ \A k \in 1..Len(archive.members) :
          archive.members[k].name = m.name => archive.members[k].isfile

CallOk(c) == Listable(archives[c.source_path]) /\ Listable(archives[c.target_path])

OneEach(c) ==
    /\ CallOk(c)
    /\ Len(Candidates(archives[c.source_path], c.extension)) = 1
    /\ Len(Candidates(archives[c.target_path], c.extension)) = 1

BothReadable(c) ==
    /\ OneEach(c)
    /\ EntryReadable(archives[c.source_path], Candidates(archives[c.source_path], c.extension)[1])
    /\ EntryReadable(archives[c.target_path], Candidates(archives[c.target_path], c.extension)[1])

PathsOf(ms) == [k \in 1..Len(ms) |-> ms[k].name]

Unset(r) == r.source_file = None /\ r.target_file = None

IOFailure(c) ==
    \/ ~CallOk(c)
    \/ (OneEach(c) /\ ~BothReadable(c))

(* C9: compare_files returns and never raises; a missing archive, an        *)
(* unreadable archive or an unreadable entry gives success = False with a   *)
(* message and with source_file and target_file unset.                      *)
C9_NeverRaises ==
    \A i \in 1..Len(calls) :
        LET c == calls[i]
        IN  /\ c.outcome.ok
            /\ c.outcome.val.message.text # ""
            /\ IOFailure(c) => (~c.outcome.val.success /\ Unset(c.outcome.val))

C9_Witness ==
    \E i, j \in 1..Len(calls) :
        /\ ~archives[calls[i].source_path].exists
        /\ calls[i].outcome.ok
        /\ OneEach(calls[j]) /\ ~BothReadable(calls[j])
        /\ archives[calls[j].target_path].exists
        /\ ~archives[calls[j].target_path].readable
              \/ \E k \in 1..Len(archives[calls[j].target_path].members) :
                    archives[calls[j].target_path].members[k].damaged
        /\ calls[j].outcome.ok

Swapped(c, d) ==
    /\ c.source_path = d.target_path
    /\ c.target_path = d.source_path
    /\ c.extension = d.extension

SameCall(c, d) ==
    /\ c.source_path = d.source_path
    /\ c.target_path = d.target_path
    /\ c.extension = d.extension

----------------------------------------------------------------------------
(* vendor_config_loader.py: VendorConfigLoader.compile_regex_pattern.       *)
(* The cache maps (pattern, substitutions) to the compiled pattern.  The    *)
(* result carries the cache, which keeps what was stored also when a later  *)
(* compilation raises.                                                      *)

compile_regex_pattern(cache, pattern, kwargs) ==
    LET cache_key == <<pattern, kwargs>>
    IN  IF cache_key \in DOMAIN cache
        THEN [res |-> Ok(cache[cache_key]), cache |-> cache]
        ELSE LET formatted_pattern == format(pattern, kwargs)
                 compiled_pattern == IF formatted_pattern.ok
                                     THEN re_compile(formatted_pattern.val, FALSE)
                                     ELSE formatted_pattern
             IN  IF ~compiled_pattern.ok
                 THEN [res |-> Raise("ValueError",
                                     <<"Failed to compile regex pattern", pattern,
                                       compiled_pattern.exc>>),
                       cache |-> cache]
                 ELSE [res |-> Ok(compiled_pattern.val),
                       cache |-> [k \in DOMAIN cache \cup {cache_key} |->
                                     IF k = cache_key THEN compiled_pattern.val ELSE cache[k]]]

----------------------------------------------------------------------------
(* vendor_rules.py: EnhancedVendorRuleStrategy *)

vendor_key == "test_vendor"

Step(status, message) == [status |-> status, message |-> message]

InitialResults(tool_number, tool_column, tech_value, cfg) ==
    [success |-> FALSE,
     vendor |-> vendor_key,
     tool_number |-> tool_number,
     tool_column |-> tool_column,
     technology_value |-> tech_value,
     paths |-> [source_archive |-> None, target_archive |-> None],
     steps |-> [archive_discovery |-> Step("PENDING", Msg("", <<>>)),
                target_exists |-> Step("PENDING", Msg("", <<>>)),
                file_consistency |-> Step("PENDING", Msg("", <<>>)),
                pattern_validation |-> Step("PENDING", Msg("", <<>>)),
                bypass_applied |-> Step("PENDING", Msg("", <<>>))],
     statistics |-> [pass_count |-> 0,
                     fail_count |-> 0,
                     bypassed_count |-> 0,
                     passing_rate |-> 0,
                     total_patterns |-> Len(cfg.required_patterns),
                     checked_patterns |-> 0],
     pattern_results |-> <<>>]

(* pandas Series access *)
HasKey(r, key) == key \in DOMAIN r

PyInt(n) == [type |-> "int", val |-> n]

PyStr == [type |-> "str", val |-> 0]

PyNaN == [type |-> "float", val |-> 0]

PyNone == [type |-> "NoneType", val |-> 0]

row_get(r, key, default) == IF key \in DOMAIN r THEN r[key] ELSE default

TechValue(r, technology_arg) ==
    IF technology_arg # PyNone THEN technology_arg ELSE row_get(r, "technology", PyInt(0))

(* technology > threshold: a str or None against an int raises TypeError,   *)
(* NaN compares False                                                       *)
GreaterThan_orEqual(tech, threshold) ==
    IF tech.type = "int" THEN Ok(tech.val >= threshold)
    ELSE IF tech.type = "float" THEN Ok(FALSE)
    ELSE Raise("TypeError", <<"'>' not supported between instances", tech.type, "int">>)

GreaterThan(tech, threshold) ==
    IF tech.type = "int" THEN Ok(tech.val > threshold)
    ELSE IF tech.type = "float" THEN Ok(FALSE)
    ELSE Raise("TypeError", <<"'>' not supported between instances", tech.type, "int">>)

(* _find_archives_from_dataframe *)
replace_backslash(path) == [i \in 1..Len(path) |-> IF path[i] = "\\" THEN "/" ELSE path[i]]

rglob(root, suffix) ==
    IF ~root.exists THEN <<>>
    ELSE SelectSeq(root.files, LAMBDA f : f.path[Len(f.path)] = suffix)

NoArchive == [path |-> None, exists |-> FALSE, readable |-> FALSE, members |-> <<>>]

NoException == Ok(None)

FirstMatch_search(root, pattern) ==
    LET hits == SelectSeq(rglob(root, ".tar.gz"),
                          LAMBDA f : re_search(pattern, replace_backslash(f.path)))
    IN  IF hits = <<>> THEN NoArchive ELSE hits[1]

FirstMatch(root, pattern) ==
    LET hits == SelectSeq(rglob(root, ".tar.gz"),
                          LAMBDA f : re_match(pattern, replace_backslash(f.path)))
    IN  IF hits = <<>> THEN NoArchive ELSE hits[1]

_find_archives_from_dataframe(r, cfg, paths, files, cache) ==
    LET substitutions == ("{source_root}" :> paths.source_root) @@
                         ("{target_root}" :> paths.target_root) @@
                         ("{tool_number}" :> r["Tool_Number"]) @@
                         ("{tool_column}" :> r["Tool Column"])
        source_pattern == compile_regex_pattern(cache,
                              cfg.archive_config.source_archive_regex, substitutions)
        target_pattern == compile_regex_pattern(source_pattern.cache,
                              cfg.archive_config.target_archive_regex, substitutions)
    IN  IF ~source_pattern.res.ok
        THEN [res |-> Raise("ValueError", <<"Failed to compile regex patterns for vendor",
                                            vendor_key, source_pattern.res.exc>>),
              cache |-> source_pattern.cache]
        ELSE IF ~target_pattern.res.ok
        THEN [res |-> Raise("ValueError", <<"Failed to compile regex patterns for vendor",
                                            vendor_key, target_pattern.res.exc>>),
              cache |-> target_pattern.cache]
        ELSE [res |-> Ok([source_archive |-> FirstMatch(files.source, source_pattern.res.val),
                          target_archive |-> FirstMatch(files.target, target_pattern.res.val)]),
              cache |-> target_pattern.cache]

(* _check_file_consistency *)
ConsistencyResult(status, message, checked_extension) ==
    [status |-> status, message |-> message, checked_extension |-> checked_extension]

_check_file_consistency(cfg, source, target) ==
    LET consistency_config == cfg.archive_config.consistency_check
        file_extension == consistency_config.file_extension
        result == compare_files(source, target, file_extension)
    IN  IF ~consistency_config.enabled
        THEN ConsistencyResult("SKIPPED", Msg("File consistency check disabled", <<>>), None)
        ELSE IF ~result.ok
        THEN ConsistencyResult("FAIL",
                 Msg("Error during consistency check: ", <<result.exc>>), file_extension)
        ELSE IF result.val.success
        THEN ConsistencyResult("PASS",
                 Msg("files are identical between source and target", <<file_extension>>),
                 file_extension)
        ELSE ConsistencyResult("FAIL",
                 Msg("file consistency check failed: ", <<file_extension, result.val.message>>),
                 file_extension)

(* _apply_bypass_rules *)
RECURSIVE ShouldBypass(_, _, _, _, _)
ShouldBypass(pattern, bypass_patterns, k, tech, threshold) ==
    IF k > Len(bypass_patterns) THEN Ok(FALSE)
    ELSE IF ~endswith(pattern, bypass_patterns[k])
         THEN ShouldBypass(pattern, bypass_patterns, k + 1, tech, threshold)
         ELSE LET above == GreaterThan(tech, threshold)
              IN  IF ~above.ok THEN above
                  ELSE IF above.val THEN Ok(TRUE)
                  ELSE ShouldBypass(pattern, bypass_patterns, k + 1, tech, threshold)

Sort_both(lists, pattern, should_bypass) ==
    IF should_bypass
    THEN [lists EXCEPT !.bypassed_patterns = Append(@, pattern),
                       !.patterns_to_check = Append(@, pattern)]
    ELSE [lists EXCEPT !.patterns_to_check = Append(@, pattern)]

Sort(lists, pattern, should_bypass) ==
    IF should_bypass
    THEN [lists EXCEPT !.bypassed_patterns = Append(@, pattern)]
    ELSE [lists EXCEPT !.patterns_to_check = Append(@, pattern)]

RECURSIVE BypassLoop(_, _, _, _)
BypassLoop(cfg, tech, i, lists) ==
    IF i > Len(cfg.required_patterns) THEN Ok(lists)
    ELSE LET pattern == cfg.required_patterns[i]
             should_bypass == ShouldBypass(pattern, cfg.bypass_rules.bypass_patterns, 1,
                                           tech, cfg.bypass_rules.technology_threshold)
         IN  IF ~should_bypass.ok THEN should_bypass
             ELSE BypassLoop(cfg, tech, i + 1, Sort(lists, pattern, should_bypass.val))

_apply_bypass_rules(cfg, tech) ==
    BypassLoop(cfg, tech, 1, [patterns_to_check |-> <<>>, bypassed_patterns |-> <<>>])

(* _validate_patterns *)
search_files_by_pattern_str(reader, pattern) ==
    LET compiled_pattern == re_compile(pattern, FALSE)
    IN  IF ~compiled_pattern.ok THEN compiled_pattern
        ELSE search_files_by_pattern(reader, compiled_pattern.val)

PassEntry(pattern, formatted_pattern, valid_files) ==
    [pattern |-> pattern, formatted_pattern |-> formatted_pattern, status |-> "PASS",
     files |-> valid_files, file_count |-> Len(valid_files)]

FailEntry(pattern, formatted_pattern) ==
    [pattern |-> pattern, formatted_pattern |-> formatted_pattern, status |-> "FAIL",
     files |-> <<>>, file_count |-> 0]

ErrorEntry(pattern, e) ==
    [pattern |-> pattern, status |-> "FAIL", files |-> <<>>, file_count |-> 0,
     error |-> <<e.exc, e.arg>>]

Qualifies_any(match) == TRUE

Qualifies(match) == match.size > 0

RECURSIVE ValidateLoop(_, _, _, _, _)
ValidateLoop(target_reader, patterns, i, tool_number, acc) ==
    IF i > Len(patterns) THEN [res |-> Ok(TRUE), acc |-> acc]
    ELSE LET pattern == patterns[i]
             formatted_pattern == format(pattern, "{tool_number}" :> tool_number)
         IN  IF ~formatted_pattern.ok THEN [res |-> formatted_pattern, acc |-> acc]
             ELSE LET matches == search_files_by_pattern_str(target_reader,
                                                             formatted_pattern.val)
                      acc1 == [acc EXCEPT !.searched = Append(@, formatted_pattern.val)]
                  IN  IF ~matches.ok THEN [res |-> matches, acc |-> acc1]
                      ELSE LET valid_files == SelectSeq(matches.val, Qualifies)
                           IN  ValidateLoop(target_reader, patterns, i + 1, tool_number,
                                   IF valid_files # <<>>
                                   THEN [acc1 EXCEPT
                                           !.pass_count = @ + 1,
                                           !.pattern_results = Append(@,
                                               PassEntry(pattern, formatted_pattern.val,
                                                         valid_files))]
                                   ELSE [acc1 EXCEPT
                                           !.fail_count = @ + 1,
                                           !.pattern_results = Append(@,
                                               FailEntry(pattern, formatted_pattern.val))])

_validate_patterns(target, patterns, tool_number) ==
    LET acc0 == [pass_count |-> 0, fail_count |-> 0, pattern_results |-> <<>>,
                 searched |-> <<>>]
        target_reader == TarFileReader(target)
        loop == IF target_reader.ok
                THEN ValidateLoop(target_reader.val, patterns, 1, tool_number, acc0)
                ELSE [res |-> target_reader, acc |-> acc0]
    IN  IF loop.res.ok THEN loop.acc
        ELSE [loop.acc EXCEPT
                !.fail_count = Len(patterns),
                !.pattern_results = @ \o [k \in 1..Len(patterns) |->
                                             ErrorEntry(patterns[k], loop.res)]]

BypassedEntry_skipped(pattern, tech_value, cfg) ==
    [pattern |-> pattern, status |-> "SKIPPED",
     bypass_reason |-> <<"Technology", tech_value, ">",
                         cfg.bypass_rules.technology_threshold>>,
     files |-> <<>>]

BypassedEntry(pattern, tech_value, cfg) ==
    [pattern |-> pattern, status |-> "BYPASSED",
     bypass_reason |-> <<"Technology", tech_value, ">",
                         cfg.bypass_rules.technology_threshold>>,
     files |-> <<>>]

(* passing_rate, in hundredths of a percent: 100.0 is 10000 *)
PassingRate_zero(pass_count, total_checked) ==
    IF total_checked > 0 THEN (pass_count * 10000) \div total_checked ELSE 0

PassingRate(pass_count, total_checked) ==
    IF total_checked > 0 THEN (pass_count * 10000) \div total_checked ELSE 10000

OverallSuccess_noPatterns(steps) ==
    /\ steps.archive_discovery.status = "PASS"
    /\ steps.target_exists.status = "PASS"
    /\ steps.file_consistency.status \in {"PASS", "SKIPPED"}

OverallSuccess(steps) ==
    /\ steps.archive_discovery.status = "PASS"
    /\ steps.target_exists.status = "PASS"
    /\ steps.file_consistency.status \in {"PASS", "SKIPPED"}
    /\ steps.pattern_validation.status = "PASS"

ConsistencyHalts_never(consistency_result) == FALSE

ConsistencyHalts(consistency_result) == consistency_result.status = "FAIL"

----------------------------------------------------------------------------
(* check_final_report_from_dataframe, one action per step *)

Call ==
    /\ pc = "start"
    /\ IF ~HasKey(row, "Tool_Number")
       THEN /\ pc' = "raised"
            /\ raised' = Raise("KeyError", <<"Tool_Number">>)
            /\ UNCHANGED validation_results
       ELSE IF ~HasKey(row, "Tool Column")
       THEN /\ pc' = "raised"
            /\ raised' = Raise("KeyError", <<"Tool Column">>)
            /\ UNCHANGED validation_results
       ELSE /\ pc' = "archive_discovery"
            /\ validation_results' = InitialResults(row["Tool_Number"], row["Tool Column"],
                                                    TechValue(row, technology), config)
            /\ UNCHANGED raised
    /\ UNCHANGED <<restVars, cmpVars, inputVars, localVars, _compiled_patterns, searched, trace>>

StepDiscovery ==
    /\ pc = "archive_discovery"
    /\ trace' = Append(trace, "archive_discovery")
    /\ LET found == _find_archives_from_dataframe(row, config, global_paths, fs,
                                                   _compiled_patterns)
       IN  /\ _compiled_patterns' = found.cache
           /\ IF ~found.res.ok
              THEN /\ pc' = "except"
                   /\ raised' = found.res
                   /\ UNCHANGED <<validation_results, source_archive, target_archive>>
              ELSE /\ source_archive' = found.res.val.source_archive
                   /\ target_archive' = found.res.val.target_archive
                   /\ UNCHANGED raised
                   /\ LET src == found.res.val.source_archive
                          tgt == found.res.val.target_archive
                          paths == [source_archive |-> IF src # NoArchive THEN src.path ELSE None,
                                    target_archive |-> IF tgt # NoArchive THEN tgt.path ELSE None]
                      IN  IF src = NoArchive \/ tgt = NoArchive
                          THEN /\ validation_results' =
                                     [validation_results EXCEPT
                                        !.paths = paths,
                                        !.steps.archive_discovery =
                                            Step("FAIL", Msg("Archives not found - Source, Target",
                                                             <<paths.source_archive,
                                                               paths.target_archive>>))]
                               /\ pc' = "done"
                          ELSE /\ validation_results' =
                                     [validation_results EXCEPT
                                        !.paths = paths,
                                        !.steps.archive_discovery =
                                            Step("PASS", Msg("Archives found - Source, Target",
                                                             <<basename(src.path),
                                                               basename(tgt.path)>>))]
                               /\ pc' = "target_exists"
    /\ UNCHANGED <<restVars, cmpVars, inputVars, patterns_to_check, bypassed_patterns, searched>>

StepTargetExists ==
    /\ pc = "target_exists"
    /\ trace' = Append(trace, "target_exists")
    /\ validation_results' =
          [validation_results EXCEPT
             !.steps.target_exists =
                 Step("PASS", Msg("Target archive exists: ", <<target_archive.path>>))]
    /\ pc' = "file_consistency"
    /\ UNCHANGED <<restVars, cmpVars, inputVars, localVars, _compiled_patterns, searched, raised>>

StepConsistency ==
    /\ pc = "file_consistency"
    /\ trace' = Append(trace, "file_consistency")
    /\ LET consistency_result == _check_file_consistency(config, source_archive, target_archive)
       IN  /\ validation_results' =
                 [validation_results EXCEPT !.steps.file_consistency = consistency_result]
           /\ pc' = IF ConsistencyHalts(consistency_result) THEN "done" ELSE "bypass"
    /\ UNCHANGED <<restVars, cmpVars, inputVars, localVars, _compiled_patterns, searched, raised>>

StepBypass ==
    /\ pc = "bypass"
    /\ trace' = Append(trace, "bypass")
    /\ LET lists == _apply_bypass_rules(config, validation_results.technology_value)
       IN  IF ~lists.ok
           THEN /\ pc' = "except"
                /\ raised' = lists
                /\ UNCHANGED <<patterns_to_check, bypassed_patterns>>
           ELSE /\ pc' = "pattern_validation"
                /\ patterns_to_check' = lists.val.patterns_to_check
                /\ bypassed_patterns' = lists.val.bypassed_patterns
                /\ UNCHANGED raised
    /\ UNCHANGED <<restVars, cmpVars, inputVars, source_archive, target_archive, _compiled_patterns,
                   validation_results, searched>>

StepPatterns ==
    /\ pc = "pattern_validation"
    /\ trace' = Append(trace, "pattern_validation")
    /\ LET checked == _validate_patterns(target_archive, patterns_to_check,
                                         validation_results.tool_number)
           pattern_results ==
               checked.pattern_results \o
               [k \in 1..Len(bypassed_patterns) |->
                   BypassedEntry(bypassed_patterns[k], validation_results.technology_value,
                                 config)]
           total_checked == Len(patterns_to_check)
           steps == [validation_results.steps EXCEPT
                       !.bypass_applied =
                           Step("INFO", Msg("Bypassed patterns based on technology value",
                                            <<Len(bypassed_patterns),
                                              validation_results.technology_value>>)),
                       !.pattern_validation =
                           Step(IF checked.fail_count = 0 THEN "PASS" ELSE "FAIL",
                                Msg("Pattern validation: patterns passed",
                                    <<checked.pass_count, Len(patterns_to_check)>>))]
       IN  /\ searched' = searched \o checked.searched
           /\ validation_results' =
                 [validation_results EXCEPT
                    !.pattern_results = pattern_results,
                    !.steps = steps,
                    !.statistics = [@ EXCEPT
                        !.pass_count = checked.pass_count,
                        !.fail_count = checked.fail_count,
                        !.bypassed_count = Len(bypassed_patterns),
                        !.passing_rate = PassingRate(checked.pass_count, total_checked),
                        !.checked_patterns = total_checked],
                    !.success = OverallSuccess(steps)]
    /\ pc' = "done"
    /\ UNCHANGED <<restVars, cmpVars, inputVars, localVars, _compiled_patterns, raised>>

ExceptHandler ==
    /\ pc = "except"
    /\ validation_results' =
          [validation_results EXCEPT
             !.steps.archive_discovery.status = "ERROR",
             !.steps.archive_discovery.message =
                 Msg("Validation error: ", <<raised.exc, raised.arg>>)]
    /\ pc' = "done"
    /\ UNCHANGED <<restVars, cmpVars, inputVars, localVars, _compiled_patterns, searched, trace, raised>>

----------------------------------------------------------------------------
(* Configurations, filesystems and rows the engine is run on *)

Threshold == 5

PatConfig == <<"C", "{tool_number}", "a", "$">>

PatTool == <<"C", "{tool_number}">>

PatBad == <<"S", "(">>

PatternPool == {PatConfig, PatTool, PatBad}

SuffixAaa == <<"a", "$">>

SuffixPlaceholder == <<"{tool_number}">>

SuffixOne == <<"1">>

BypassLists == { <<SuffixAaa>>, <<SuffixPlaceholder>>, <<SuffixAaa, SuffixOne>> }

SeqsUpTo(S, n) == UNION { [1..k -> S] : k \in 1..n }

Configs ==
    { [archive_config |->
           [source_archive_regex |->
                <<"{source_root}", "/", "{tool_column}", "/", "{tool_number}", ".tar.gz", "$">>,
            target_archive_regex |->
                <<"{target_root}", "/", "{tool_column}", "/", "{tool_number}", ".tar.gz", "$">>,
            consistency_check |-> [enabled |-> en, file_extension |-> <<"r">>]],
       required_patterns |-> rp,
       bypass_rules |-> [technology_threshold |-> Threshold, bypass_patterns |-> bp]] :
      en \in BOOLEAN, rp \in SeqsUpTo(PatternPool, MaxPatterns), bp \in BypassLists }

GlobalPaths == [source_root |-> <<"s">>, target_root |-> <<"t">>]

ArchiveAt(path, members) ==
    [path |-> path, exists |-> TRUE, readable |-> TRUE, members |-> members]

CorruptAt(path) == [path |-> path, exists |-> TRUE, readable |-> FALSE, members |-> <<>>]

ArchivePath(root, tool) == <<root, "/", "A", "/", tool, ".tar.gz">>

Rctl(content) == File(NameRctl, content)

NameConfig == <<"d", "/", "C", "1", "a">>

ConfigFiles == { <<>>, <<File(NameConfig, <<>>)>>, <<File(NameConfig, <<"a">>)>> }

TargetMembers ==
    { <<Rctl(<<"a">>)>> \o c : c \in ConfigFiles }
    \cup { <<Rctl(<<"b">>), File(NameConfig, <<"a">>)>> }

Root(files) == [exists |-> TRUE, files |-> files]

MissingRoot == [exists |-> FALSE, files |-> <<>>]

BothSides(source_members, target_members) ==
    [source |-> Root(<<ArchiveAt(ArchivePath("s", "1"), source_members),
                       ArchiveAt(ArchivePath("s", "2"), source_members)>>),
     target |-> Root(<<ArchiveAt(ArchivePath("t", "1"), target_members),
                       ArchiveAt(ArchivePath("t", "2"), target_members)>>)]

Filesystems ==
    { BothSides(<<Rctl(<<"a">>)>>, m) : m \in TargetMembers }
    \cup { BothSides(<<>>, <<Rctl(<<"a">>), File(NameConfig, <<"a">>)>>) }
    \cup { [source |-> Root(<<ArchiveAt(ArchivePath("s", "1"), <<Rctl(<<"a">>)>>)>>),
            target |-> Root(<<CorruptAt(ArchivePath("t", "1"))>>)],
           [source |-> Root(<<ArchiveAt(<<"s", "/", "A", "/", "1">>, <<Rctl(<<"a">>)>>)>>),
            target |-> Root(<<ArchiveAt(ArchivePath("t", "1"), <<Rctl(<<"a">>)>>)>>)],
           [source |-> Root(<<ArchiveAt(ArchivePath("s", "1"), <<Rctl(<<"a">>)>>)>>),
            target |-> MissingRoot],
           [source |-> Root(<<ArchiveAt(<<"s", "\\", "A", "/", "1", ".tar.gz">>, <<Rctl(<<"a">>)>>),
                              ArchiveAt(ArchivePath("s", "1"), <<Rctl(<<"b">>)>>)>>),
            target |-> Root(<<ArchiveAt(ArchivePath("t", "1"), <<Rctl(<<"a">>)>>)>>)],
           [source |-> Root(<<ArchiveAt(<<"s", "/", "A", "/">> \o ArchivePath("s", "1"),
                                        <<Rctl(<<"a">>)>>)>>),
            target |-> Root(<<ArchiveAt(ArchivePath("t", "1"), <<Rctl(<<"a">>)>>)>>)] }

RowOf(tool, tech) ==
    ("Tool_Number" :> tool) @@ ("Tool Column" :> <<"A">>) @@ ("technology" :> tech)

CallInputs ==
    { [row |-> RowOf(<<"1">>, t), technology |-> PyNone] :
          t \in {PyInt(Threshold), PyInt(Threshold + 1), PyStr, PyNaN} }
    \cup { [row |-> ("Tool_Number" :> <<"1">>) @@ ("Tool Column" :> <<"A">>),
            technology |-> PyNone],
           [row |-> RowOf(<<"2">>, PyInt(Threshold + 1)), technology |-> PyNone],
           [row |-> RowOf(<<"(">>, PyInt(Threshold + 1)), technology |-> PyNone],
           [row |-> RowOf(<<"1">>, PyInt(Threshold)), technology |-> PyInt(Threshold + 1)],
           [row |-> ("Tool Column" :> <<"A">>) @@ ("technology" :> PyInt(Threshold)),
            technology |-> PyNone],
           [row |-> ("Tool_Number" :> <<"1">>) @@ ("technology" :> PyInt(Threshold)),
            technology |-> PyNone] }

ComparerIdle ==
    /\ archives = [p \in Paths |-> NoArchive]
    /\ calls = <<>>

Init ==
    /\ ComparerIdle
    /\ RegistryIdle
    /\ LoaderIdle
    /\ MainIdle
    /\ config \in Configs
    /\ global_paths = GlobalPaths
    /\ _compiled_patterns = <<>>
    /\ fs \in Filesystems
    /\ \E c \in CallInputs : row = c.row /\ technology = c.technology
    /\ pc = "start"
    /\ validation_results = None
    /\ source_archive = NoArchive
    /\ target_archive = NoArchive
    /\ patterns_to_check = <<>>
    /\ bypassed_patterns = <<>>
    /\ searched = <<>>
    /\ trace = <<>>
    /\ raised = NoException

Next ==
    \/ Call
    \/ StepDiscovery
    \/ StepTargetExists
    \/ StepConsistency
    \/ StepBypass
    \/ StepPatterns
    \/ ExceptHandler

Spec == Init /\ [][Next]_vars

----------------------------------------------------------------------------
(* Properties of check_final_report_from_dataframe *)

Range(s) == {s[k] : k \in 1..Len(s)}

IsPrefix(s, t) == Len(s) <= Len(t) /\ SubSeq(t, 1, Len(s)) = s

StepOrder ==
    <<"archive_discovery", "target_exists", "file_consistency", "bypass", "pattern_validation">>

Returned == pc = "done"

StatusOf(step) == validation_results.steps[step].status

Stats == validation_results.statistics

ReachedPatterns == Returned /\ StatusOf("pattern_validation") # "PENDING"

BypassDone == pc = "pattern_validation" \/ ReachedPatterns

Located == _find_archives_from_dataframe(row, config, global_paths, fs, <<>>).res

Unresolved ==
    /\ Located.ok
    /\ Located.val.source_archive = NoArchive \/ Located.val.target_archive = NoArchive

NothingValidated ==
    /\ StatusOf("pattern_validation") = "PENDING"
    /\ StatusOf("bypass_applied") = "PENDING"
    /\ ~validation_results.success
    /\ validation_results.pattern_results = <<>>
    /\ searched = <<>>

(* C1: the steps run in the order discovery, target existence, consistency, *)
(* bypass, pattern validation.  When a side is unresolved the call returns  *)
(* with archive_discovery FAIL and the four later steps PENDING; when the   *)
(* consistency check FAILs it returns with pattern_validation and bypass    *)
(* PENDING.  In both cases success is False, pattern_results is empty and   *)
(* nothing was searched in the target archive.                              *)
C1_ShortCircuit ==
    /\ IsPrefix(trace, StepOrder)
    /\ (Returned /\ Unresolved) =>
          /\ StatusOf("archive_discovery") = "FAIL"
          /\ StatusOf("target_exists") = "PENDING"
          /\ StatusOf("file_consistency") = "PENDING"
          /\ NothingValidated
          /\ trace = <<"archive_discovery">>
    /\ (Returned /\ StatusOf("file_consistency") = "FAIL") =>
          /\ NothingValidated
          /\ trace = <<"archive_discovery", "target_exists", "file_consistency">>

C1_Witness ==
    /\ Returned
    /\ StatusOf("archive_discovery") = "PASS"
    /\ StatusOf("file_consistency") = "FAIL"
    /\ \E k \in 1..Len(target_archive.members) : target_archive.members[k].name = NameConfig

(* C2: in every returned result success is True exactly when                *)
(* archive_discovery is PASS, target_exists is PASS, file_consistency is    *)
(* PASS or SKIPPED and fail_count is 0.                                     *)
C2_SuccessIff ==
    Returned =>
        (validation_results.success <=>
            /\ StatusOf("archive_discovery") = "PASS"
            /\ StatusOf("target_exists") = "PASS"
            /\ StatusOf("file_consistency") \in {"PASS", "SKIPPED"}
            /\ Stats.fail_count = 0)

C2_Witness ==
    /\ Returned
    /\ validation_results.success
    /\ Stats.pass_count > 0
    /\ Stats.bypassed_count > 0

TechAbove ==
    /\ validation_results.technology_value.type = "int"
    /\ validation_results.technology_value.val > config.bypass_rules.technology_threshold

Substituted(pattern) == format(pattern, "{tool_number}" :> validation_results.tool_number).val

SuffixOf(string) ==
    \E k \in 1..Len(config.bypass_rules.bypass_patterns) :
        endswith(string, config.bypass_rules.bypass_patterns[k])

(* C3 as claimed: a required pattern is bypassed exactly when the           *)
(* technology value is strictly above the threshold and the pattern with    *)
(* {tool_number} substituted ends with a bypass suffix; otherwise it is     *)
(* checked.                                                                 *)
C3_SubstitutedSuffix ==
    BypassDone =>
        \A p \in Range(config.required_patterns) :
            /\ p \in Range(bypassed_patterns) <=> (TechAbove /\ SuffixOf(Substituted(p)))
            /\ p \in Range(patterns_to_check) <=> ~(TechAbove /\ SuffixOf(Substituted(p)))

(* C3 amended: a required pattern is bypassed exactly when the technology   *)
(* value is strictly above the threshold and the pattern template as        *)
(* configured, before {tool_number} is substituted, ends with a bypass      *)
(* suffix; otherwise it is checked.                                         *)
C3_TemplateSuffix ==
    BypassDone =>
        \A p \in Range(config.required_patterns) :
            /\ p \in Range(bypassed_patterns) <=> (TechAbove /\ SuffixOf(p))
            /\ p \in Range(patterns_to_check) <=> ~(TechAbove /\ SuffixOf(p))

C3_Witness ==
    /\ BypassDone
    /\ PatTool \in Range(bypassed_patterns)
    /\ ~SuffixOf(Substituted(PatTool))

(* C4: _apply_bypass_rules splits required_patterns into two disjoint       *)
(* lists, each in configuration order, whose lengths add up to the number   *)
(* of required patterns; a result that reached pattern validation has       *)
(* checked_patterns + bypassed_count = total_patterns.                      *)
C4_Partition ==
    /\ BypassDone =>
          LET B == Range(bypassed_patterns)
          IN  /\ patterns_to_check =
                     SelectSeq(config.required_patterns, LAMBDA p : p \notin B)
              /\ bypassed_patterns =
                     SelectSeq(config.required_patterns, LAMBDA p : p \in B)
              /\ Range(patterns_to_check) \cap B = {}
              /\ Len(patterns_to_check) + Len(bypassed_patterns)
                     = Len(config.required_patterns)
    /\ ReachedPatterns =>
          Stats.checked_patterns + Stats.bypassed_count = Stats.total_patterns

C4_Witness ==
    /\ ReachedPatterns
    /\ patterns_to_check # <<>>
    /\ bypassed_patterns # <<>>
    /\ Stats.total_patterns = MaxPatterns

PathMatches(pattern, name) ==
    LET formatted == format(pattern, "{tool_number}" :> validation_results.tool_number)
        compiled == re_compile(formatted.val, FALSE)
    IN  formatted.ok /\ compiled.ok /\ re_search(compiled.val, name)

QualifyingEntry(pattern) ==
    /\ target_archive.readable
    /\ \E k \in 1..Len(target_archive.members) :
          /\ target_archive.members[k].isfile
          /\ Len(target_archive.members[k].content) > 0
          /\ PathMatches(pattern, target_archive.members[k].name)

EntriesFor(pattern) ==
    SelectSeq(validation_results.pattern_results,
              LAMBDA e : e.pattern = pattern /\ e.status \in {"PASS", "FAIL"})

IsPass(pattern) ==
    /\ EntriesFor(pattern) # <<>>
    /\ \A k \in 1..Len(EntriesFor(pattern)) : EntriesFor(pattern)[k].status = "PASS"

(* C5: a checked pattern is PASS exactly when the target archive holds a    *)
(* file entry of size > 0 whose path matches the pattern with the tool      *)
(* number substituted; entries of size 0 count as no entry.                 *)
C5_PassIffNonEmptyMatch ==
    ReachedPatterns =>
        \A p \in Range(patterns_to_check) : IsPass(p) <=> QualifyingEntry(p)

(* C6 as claimed: every returned result has 0 <= passing_rate <= 100, and   *)
(* passing_rate is 100.0 whenever checked_patterns is 0.                    *)
C6_RateClaimed ==
    Returned =>
        /\ 0 <= Stats.passing_rate /\ Stats.passing_rate <= 10000
        /\ Stats.checked_patterns = 0 => Stats.passing_rate = 10000

(* C6 amended: every returned result has 0 <= passing_rate <= 100;          *)
(* passing_rate is 100.0 whenever checked_patterns is 0 in a result that    *)
(* reached pattern validation, and a result that returned before pattern    *)
(* validation keeps checked_patterns 0 and passing_rate 0.0.                *)
C6_Rate ==
    Returned =>
        /\ 0 <= Stats.passing_rate /\ Stats.passing_rate <= 10000
        /\ (ReachedPatterns /\ Stats.checked_patterns = 0) => Stats.passing_rate = 10000
        /\ ~ReachedPatterns => (Stats.checked_patterns = 0 /\ Stats.passing_rate = 0)

C6_Witness ==
    /\ ReachedPatterns
    /\ Stats.checked_patterns = 0
    /\ Stats.bypassed_count > 0
    /\ Stats.passing_rate = 10000

(* C7: the call never raises to its caller, whatever the row; an exception  *)
(* is reported as a step status ERROR that carries the exception text, with *)
(* success False.                                                           *)
C7_NeverRaises ==
    /\ pc # "raised"
    /\ (Returned /\ ~raised.ok) =>
          /\ ~validation_results.success
          /\ \E step \in DOMAIN validation_results.steps :
                /\ validation_results.steps[step].status = "ERROR"
                /\ validation_results.steps[step].message.args = <<raised.exc, raised.arg>>

----------------------------------------------------------------------------
(* Checkpoints: checkpoint_strategies.py                                   *)
(*                                                                         *)
(* A checkpoint is a record of its name, its priority and its kind:        *)
(* "package" is EnhancedPackageReadinessCheckpoint, "final" is             *)
(* EnhancedFinalReportCheckpoint, and "custom" is a user subclass whose    *)
(* should_check and execute_check have a fixed behaviour.  Dates are day   *)
(* numbers.  An operator that calls into a checkpoint returns its result   *)
(* together with the calls it made, in order.                              *)

PyDate(n) == [type |-> "date", val |-> n]

Str(chars) == [type |-> "str", val |-> chars]

PackageDays == 3

FinalDays == 5

Out(res, events) == [res |-> res, events |-> events]

Event(what, name) == <<what, name>>

RowDate(r, column) ==
    IF ~HasKey(r, column) THEN Raise("KeyError", <<column>>)
    ELSE IF r[column].type # "date"
         THEN Raise("TypeError", <<"unsupported operand type(s)", r[column].type>>)
         ELSE Ok(r[column].val)

should_check_strict(checkpoint, r, today) ==
    IF checkpoint.kind = "package"
    THEN LET start == RowDate(r, "Project Start Date")
         IN  IF ~start.ok THEN start ELSE Ok(today > start.val + PackageDays)
    ELSE IF checkpoint.kind = "final"
    THEN LET schedule == RowDate(r, "Customer schedule")
         IN  IF ~schedule.ok THEN schedule ELSE Ok(schedule.val - today <= FinalDays)
    ELSE IF checkpoint.trigger = "raise" THEN Raise("RuntimeError", <<"should_check">>)
         ELSE Ok(checkpoint.trigger = "true")

should_check(checkpoint, r, today) ==
    IF checkpoint.kind = "package"
    THEN LET start == RowDate(r, "Project Start Date")
         IN  IF ~start.ok THEN start ELSE Ok(today >= start.val + PackageDays)
    ELSE IF checkpoint.kind = "final"
    THEN LET schedule == RowDate(r, "Customer schedule")
         IN  IF ~schedule.ok THEN schedule ELSE Ok(schedule.val - today <= FinalDays)
    ELSE IF checkpoint.trigger = "raise" THEN Raise("RuntimeError", <<"should_check">>)
         ELSE Ok(checkpoint.trigger = "true")

(* EnhancedVendorRuleRegistry as the checkpoints see it: env.registered is *)
(* the keys of _enhanced_rules, env.configured the vendors of config.json, *)
(* env.valid the configured vendors whose configuration validates          *)

list_enhanced_vendors(env) == env.registered \cup env.configured

get_enhanced_rule(vkey, env) ==
    IF vkey = None THEN Raise("AttributeError", <<"NoneType", "lower">>)
    ELSE LET key == lower(vkey)
         IN  IF key \in env.registered THEN Ok(key)
             ELSE IF key \in env.configured /\ key \in env.valid THEN Ok(key)
             ELSE Ok(None)

(* checkpoint_strategies.py imports only EnhancedVendorRuleRegistry, so    *)
(* the name VendorRuleRegistry is undefined where it is evaluated          *)
VendorRuleRegistry == Raise("NameError", <<"VendorRuleRegistry">>)

isna(value) == value.type = "float"

_get_vendor_key(r, env) ==
    IF ~HasKey(r, "Vendor") THEN Ok(None)
    ELSE IF isna(r["Vendor"]) THEN Ok(None)
    ELSE LET vkey == lower(r["Vendor"].val)
         IN  IF vkey \in list_enhanced_vendors(env) THEN Ok(vkey)
             ELSE VendorRuleRegistry

(* The outcome of check_final_report_from_dataframe for the row *)
EngineOutcome(enhanced_rule, r, env) ==
    IF ~HasKey(r, "Tool_Number") THEN Raise("KeyError", <<"Tool_Number">>)
    ELSE IF ~HasKey(r, "Tool Column") THEN Raise("KeyError", <<"Tool Column">>)
    ELSE IF env.engine = "raise" THEN Raise("RuntimeError", <<"engine">>)
    ELSE Ok([success |-> env.engine = "success",
             vendor |-> enhanced_rule,
             tool_number |-> r["Tool_Number"]])

_format_enhanced_fail_reason(result) == Msg("Enhanced validation failed", <<result.vendor>>)

_execute_enhanced_vendor_check(checkpoint, enhanced_rule, r, env) ==
    LET result == EngineOutcome(enhanced_rule, r, env)
        events == <<Event("engine", checkpoint.name)>>
        tried ==
            IF ~result.ok THEN result
            ELSE IF result.val.success THEN Ok(<<>>)
            ELSE IF ~HasKey(r, "Responsible User") THEN Raise("KeyError", <<"Responsible User">>)
            ELSE Ok(<< [Tool_Number |-> r["Tool_Number"],
                        Project |-> r["Tool Column"],
                        Vendor |-> result.val.vendor,
                        Checkpoint |-> checkpoint.name,
                        Enhanced_Validation |-> TRUE]
                        @@ ("Fail Reason" :> _format_enhanced_fail_reason(result.val))
                        @@ ("Responsible User" :> r["Responsible User"]) >>)
    IN  IF tried.ok THEN Out(tried, events)
        ELSE IF ~HasKey(r, "Tool_Number") THEN Out(Raise("KeyError", <<"Tool_Number">>), events)
        ELSE IF ~HasKey(r, "Tool Column") THEN Out(Raise("KeyError", <<"Tool Column">>), events)
        ELSE IF ~HasKey(r, "Responsible User")
             THEN Out(Raise("KeyError", <<"Responsible User">>), events)
        ELSE Out(Ok(<< [Tool_Number |-> r["Tool_Number"],
                        Project |-> r["Tool Column"],
                        Vendor |-> enhanced_rule,
                        Checkpoint |-> checkpoint.name,
                        Enhanced_Validation |-> FALSE]
                        @@ ("Fail Reason" :> Msg("Enhanced validation error: ",
                                                 <<tried.exc, tried.arg>>))
                        @@ ("Responsible User" :> r["Responsible User"]) >>), events)

(* VendorRuleRegistry.get_rule is evaluated after the two row lookups *)
_execute_legacy_vendor_check(vkey, r) ==
    IF ~HasKey(r, "Tool Column") THEN Raise("KeyError", <<"Tool Column">>)
    ELSE IF ~HasKey(r, "Tool_Number") THEN Raise("KeyError", <<"Tool_Number">>)
    ELSE VendorRuleRegistry

Dict(value) == [type |-> "dict", val |-> value]

Elapsed == [type |-> "float", val |-> 1]

RowKeys(r, next) ==
    IF ~HasKey(r, "Tool Column") THEN Raise("KeyError", <<"Tool Column">>)
    ELSE IF ~HasKey(r, "Tool_Number") THEN Raise("KeyError", <<"Tool_Number">>)
    ELSE next

NeedsUser(r, record) ==
    IF ~HasKey(r, "Responsible User") THEN Raise("KeyError", <<"Responsible User">>)
    ELSE Ok(<< record @@ ("Responsible User" :> r["Responsible User"]) >>)

execute_check_package(checkpoint, r, env) ==
    RowKeys(r,
        IF r["Tool_Number"] \notin env.packages
        THEN NeedsUser(r, [Tool_Number |-> r["Tool_Number"],
                           Project |-> r["Tool Column"],
                           Checkpoint |-> checkpoint.name]
                          @@ ("Fail Reason" :> Msg("Package not found", <<>>)))
        ELSE Ok(<<>>))

execute_check_final(checkpoint, r, env) ==
    LET vkey == _get_vendor_key(r, env)
        enhanced_rule == get_enhanced_rule(vkey.val, env)
    IN  IF ~RowKeys(r, Ok(None)).ok THEN Out(RowKeys(r, Ok(None)), <<>>)
        ELSE IF ~vkey.ok THEN Out(vkey, <<>>)
        ELSE IF vkey.val = None
        THEN Out(NeedsUser(r, [Tool_Number |-> r["Tool_Number"],
                               Project |-> r["Tool Column"],
                               Vendor |-> row_get(r, "Vendor", Str(<<"MISSING">>)),
                               Checkpoint |-> checkpoint.name]
                              @@ ("Fail Reason" :>
                                    Msg("Unsupported vendor or missing vendor information",
                                        <<>>))),
                 <<>>)
        ELSE IF ~enhanced_rule.ok THEN Out(enhanced_rule, <<>>)
        ELSE IF enhanced_rule.val # None
        THEN _execute_enhanced_vendor_check(checkpoint, enhanced_rule.val, r, env)
        ELSE Out(_execute_legacy_vendor_check(vkey.val, r), <<>>)

execute_check_custom(checkpoint, r) ==
    IF checkpoint.check = "raise" THEN Raise("ValueError", <<"Test error">>)
    ELSE IF checkpoint.check = "fail"
    THEN Ok(<< [Checkpoint |-> checkpoint.name] @@ ("Fail Reason" :> Msg("Custom", <<>>)) >>)
    ELSE Ok(<<>>)

execute_check(checkpoint, r, today, env) ==
    IF checkpoint.kind = "package" THEN Out(execute_check_package(checkpoint, r, env), <<>>)
    ELSE IF checkpoint.kind = "final" THEN execute_check_final(checkpoint, r, env)
    ELSE Out(execute_check_custom(checkpoint, r), <<>>)

(* The failure record built by the except branch of execute_enhanced_check *)
ExecutionError(r, e) ==
    [Tool_Number |-> r["Tool_Number"], Project |-> r["Tool Column"]]
    @@ ("Fail Reason" :> Msg("Checkpoint execution error: ", <<e.exc, e.arg>>))
    @@ ("Responsible User" :> row_get(r, "Responsible User", Str(<<"Unknown">>)))

(* The one value of a set with a single element: Only({F(x) : x \in {e}})  *)
(* is F at the value of e, with e evaluated once                           *)
Only(S) == CHOOSE x \in S : TRUE

(* execute_enhanced_check after execute_check has returned or raised *)
Executed(result, r, checked, asked, checkpoint) ==
    LET events == asked \o <<Event("execute_check", checkpoint.name)>> \o checked.events
    IN  IF checked.res.ok
        THEN Out(Ok([result EXCEPT !.executed = TRUE,
                                   !.success = (Len(checked.res.val) = 0),
                                   !.failures = checked.res.val,
                                   !.execution_time = Elapsed]), events)
        ELSE Out(Ok([result EXCEPT !.executed = TRUE,
                                   !.success = FALSE,
                                   !.failures = <<ExecutionError(r, checked.res)>>,
                                   !.execution_time = Elapsed]), events)

(* EnhancedCheckpointStrategy.execute_enhanced_check *)
execute_enhanced_check_base(checkpoint, r, today, env) ==
    LET sc == should_check(checkpoint, r, today)
        asked == <<Event("should_check", checkpoint.name)>>
        result == [checkpoint_name |-> checkpoint.name,
                   tool_number |-> r["Tool_Number"],
                   tool_column |-> r["Tool Column"],
                   should_check |-> sc.val,
                   executed |-> FALSE,
                   success |-> FALSE,
                   failures |-> <<>>,
                   detailed_result |-> PyNone,
                   execution_time |-> PyNone]
    IN  IF ~sc.ok THEN Out(sc, asked)
        ELSE IF ~HasKey(r, "Tool_Number") THEN Out(Raise("KeyError", <<"Tool_Number">>), asked)
        ELSE IF ~HasKey(r, "Tool Column") THEN Out(Raise("KeyError", <<"Tool Column">>), asked)
        ELSE IF ~sc.val THEN Out(Ok(result), asked)
        ELSE Only({ Executed(result, r, checked, asked, checkpoint) :
                        checked \in {execute_check(checkpoint, r, today, env)} })

(* EnhancedFinalReportCheckpoint.execute_enhanced_check after the call of  *)
(* super().execute_enhanced_check                                          *)
Detailed(base, checkpoint, r, env) ==
    LET base_result == base.res.val
        vkey == _get_vendor_key(r, env)
        enhanced_rule == get_enhanced_rule(vkey.val, env)
        detailed_result == EngineOutcome(enhanced_rule.val, r, env)
        events == base.events \o <<Event("engine", checkpoint.name)>>
    IN  IF ~base.res.ok THEN base
        ELSE IF ~(base_result.should_check /\ base_result.executed) THEN base
        ELSE IF ~vkey.ok THEN Out(vkey, base.events)
        ELSE IF ~enhanced_rule.ok THEN Out(enhanced_rule, base.events)
        ELSE IF enhanced_rule.val = None THEN base
        ELSE IF detailed_result.ok
        THEN Out(Ok([base_result EXCEPT !.detailed_result = Dict(detailed_result.val)]
                    @@ ("vendor_validation" :>
                          [vendor |-> vkey.val, enhanced_validation |-> TRUE])), events)
        ELSE Out(Ok(base_result
                    @@ ("vendor_validation" :>
                          [vendor |-> vkey.val, enhanced_validation |-> FALSE,
                           error |-> <<detailed_result.exc, detailed_result.arg>>])), events)

(* EnhancedFinalReportCheckpoint.execute_enhanced_check *)
execute_enhanced_check_final(checkpoint, r, today, env) ==
    Only({ Detailed(base, checkpoint, r, env) :
               base \in {execute_enhanced_check_base(checkpoint, r, today, env)} })

execute_enhanced_check(checkpoint, r, today, env) ==
    IF checkpoint.kind = "final" THEN execute_enhanced_check_final(checkpoint, r, today, env)
    ELSE execute_enhanced_check_base(checkpoint, r, today, env)

----------------------------------------------------------------------------
(* EnhancedCheckpointRegistry *)

(* list.sort(key=priority) is stable: an element goes after every element  *)
(* already placed whose priority is not greater                            *)
InsertByPriority_front(sorted, checkpoint) ==
    LET before == SelectSeq(sorted, LAMBDA c : c.priority < checkpoint.priority)
        after == SelectSeq(sorted, LAMBDA c : c.priority >= checkpoint.priority)
    IN  before \o <<checkpoint>> \o after

InsertByPriority(sorted, checkpoint) ==
    LET before == SelectSeq(sorted, LAMBDA c : c.priority <= checkpoint.priority)
        after == SelectSeq(sorted, LAMBDA c : c.priority > checkpoint.priority)
    IN  before \o <<checkpoint>> \o after

RECURSIVE SortFrom(_, _, _)
SortFrom(list, k, sorted) ==
    IF k > Len(list) THEN sorted
    ELSE SortFrom(list, k + 1, InsertByPriority(sorted, list[k]))

sort(list) == SortFrom(list, 1, <<>>)

register(checkpoints, checkpoint) == sort(Append(checkpoints, checkpoint))

unregister(checkpoints, checkpoint_name) ==
    SelectSeq(checkpoints, LAMBDA cp : cp.name # checkpoint_name)

get_all_enhanced_checkpoints(checkpoints) == checkpoints

clear(checkpoints) == <<>>

Checkpoint(name, priority, kind, trigger, check) ==
    [name |-> name, priority |-> priority, kind |-> kind, trigger |-> trigger,
     check |-> check, stamp |-> 0]

EnhancedPackageReadinessCheckpoint ==
    Checkpoint("Enhanced Package Readiness", 1, "package", "date", "glob")

EnhancedFinalReportCheckpoint ==
    Checkpoint("Enhanced Final Report", 2, "final", "date", "vendor")

Stamped(checkpoint, n) == [checkpoint EXCEPT !.stamp = n]

initialize_enhanced_defaults(checkpoints, n) ==
    register(register(clear(checkpoints), Stamped(EnhancedPackageReadinessCheckpoint, n + 1)),
             Stamped(EnhancedFinalReportCheckpoint, n + 2))

(* One pass of the loop of execute_all_enhanced_checks *)
Aggregate(results, checkpoint_result) ==
    LET counted == IF checkpoint_result.executed
                   THEN [results EXCEPT !.executed_checkpoints = @ + 1]
                   ELSE results
        failed == IF ~checkpoint_result.success
                  THEN [counted EXCEPT !.overall_success = FALSE,
                                       !.total_failures = @ + Len(checkpoint_result.failures)]
                  ELSE counted
    IN  [failed EXCEPT !.checkpoints = Append(@, checkpoint_result)]

RECURSIVE RunCheckpoints(_, _, _, _, _, _, _)
RunCheckpoints(checkpoints, k, r, today, env, results, events) ==
    IF k > Len(checkpoints) THEN Out(Ok(results), events)
    ELSE Only({ IF ~run.res.ok THEN Out(run.res, events \o run.events)
                ELSE Only({ RunCheckpoints(checkpoints, k + 1, r, today, env, next,
                                           events \o run.events) :
                                next \in {Aggregate(results, run.res.val)} }) :
                    run \in {execute_enhanced_check(checkpoints[k], r, today, env)} })

execute_all_enhanced_checks(checkpoints, r, today, env) ==
    IF ~HasKey(r, "Tool_Number") THEN Out(Raise("KeyError", <<"Tool_Number">>), <<>>)
    ELSE IF ~HasKey(r, "Tool Column") THEN Out(Raise("KeyError", <<"Tool Column">>), <<>>)
    ELSE RunCheckpoints(get_all_enhanced_checkpoints(checkpoints), 1, r, today, env,
                        [tool_number |-> r["Tool_Number"],
                         tool_column |-> r["Tool Column"],
                         execution_timestamp |-> today,
                         checkpoints |-> <<>>,
                         overall_success |-> TRUE,
                         total_failures |-> 0,
                         executed_checkpoints |-> 0],
                        <<>>)

----------------------------------------------------------------------------
(* OutsourcingQcCheckPoints: batch evaluation over the rows of a DataFrame. *)
(* The module imports CheckpointRegistry, which checkpoint_strategies.py    *)
(* does not define; its three methods are taken to be those of              *)
(* EnhancedCheckpointRegistry.                                              *)

get_all_checkpoints(checkpoints) == get_all_enhanced_checkpoints(checkpoints)

execute_all_checks(checkpoints, r, today, env) ==
    execute_all_enhanced_checks(checkpoints, r, today, env)

Batch(res, evaluated) == [res |-> res, evaluated |-> evaluated]

(* _get_failures: checkpoints in the outer loop, rows in the inner loop;    *)
(* evaluated collects the rows whose trigger has been asked                 *)
RECURSIVE FailuresFrom(_, _, _, _, _, _, _, _)
FailuresFrom(checkpoints, c, df, k, today, env, failures, evaluated) ==
    IF c > Len(checkpoints) THEN Batch(Ok(failures), evaluated)
    ELSE IF k > Len(df)
    THEN Only({ FailuresFrom(checkpoints, c + 1, df, 1, today, env, next, evaluated) :
                    next \in { IF c + 1 <= Len(checkpoints)
                               THEN (checkpoints[c + 1].name :> <<>>) @@ failures
                               ELSE failures } })
    ELSE Only({ IF ~sc.ok THEN Batch(sc, evaluated \cup {k})
                ELSE IF ~sc.val
                THEN FailuresFrom(checkpoints, c, df, k + 1, today, env, failures,
                                  evaluated \cup {k})
                ELSE Only({ IF ~checkpoint_failures.ok
                            THEN Batch(checkpoint_failures, evaluated \cup {k})
                            ELSE Only({ FailuresFrom(checkpoints, c, df, k + 1, today, env,
                                                     next, evaluated \cup {k}) :
                                next \in { [failures EXCEPT ![checkpoints[c].name] =
                                               @ \o checkpoint_failures.val] } }) :
                        checkpoint_failures \in
                            {execute_check(checkpoints[c], df[k], today, env).res} }) :
                    sc \in {should_check(checkpoints[c], df[k], today)} })

_get_failures(checkpoints, df, today, env) ==
    LET all == get_all_checkpoints(checkpoints)
    IN  IF all = <<>> THEN Batch(Ok(<<>>), {})
        ELSE FailuresFrom(all, 1, df, 1, today, env, (all[1].name :> <<>>), {})

get_failures(checkpoints, df, today, env) == _get_failures(checkpoints, df, today, env)

(* get_results: tool_results and the summary; vendor_statistics maps the    *)
(* Vendor cell of a row (the str 'Unknown' when the column is missing) to   *)
(* the counters of that vendor                                              *)
VendorOf(r) == row_get(r, "Vendor", Str(<<"Unknown">>))

UsedEnhanced(tool_result) ==
    \E k \in DOMAIN tool_result.checkpoints :
        tool_result.checkpoints[k].detailed_result.type = "dict"

NewVendor == [total_tools |-> 0, successes |-> 0, failures |-> 0, enhanced_validations |-> 0]

Counted_successOnly(vendor_stats, tool_result) ==
    [vendor_stats EXCEPT
        !.total_tools = @ + 1,
        !.successes = IF tool_result.overall_success THEN @ + 1 ELSE @,
        !.enhanced_validations = IF UsedEnhanced(tool_result) THEN @ + 1 ELSE @]

Counted(vendor_stats, tool_result) ==
    [vendor_stats EXCEPT
        !.total_tools = @ + 1,
        !.successes = IF tool_result.overall_success THEN @ + 1 ELSE @,
        !.failures = IF tool_result.overall_success THEN @ ELSE @ + 1,
        !.enhanced_validations = IF UsedEnhanced(tool_result) THEN @ + 1 ELSE @]

Summed(results, r, tool_result) ==
    LET vendor == VendorOf(r)
        known == IF vendor \in DOMAIN results.vendor_statistics
                 THEN results.vendor_statistics
                 ELSE (vendor :> NewVendor) @@ results.vendor_statistics
    IN  [results EXCEPT
            !.tool_results = Append(@, tool_result),
            !.total_successes = IF tool_result.overall_success THEN @ + 1 ELSE @,
            !.total_failures = IF tool_result.overall_success THEN @ ELSE @ + 1,
            !.vendor_statistics = [known EXCEPT ![vendor] = Counted(@, tool_result)],
            !.tools_with_enhanced_validation =
                IF UsedEnhanced(tool_result) THEN @ + 1 ELSE @,
            !.tools_with_legacy_fallback =
                IF UsedEnhanced(tool_result) THEN @ ELSE @ + 1]

RECURSIVE ResultsFrom(_, _, _, _, _, _, _)
ResultsFrom(checkpoints, df, k, today, env, results, evaluated) ==
    IF k > Len(df) THEN Batch(Ok(results), evaluated)
    ELSE Only({ IF ~tool_result.ok THEN Batch(tool_result, evaluated \cup {k})
                ELSE Only({ ResultsFrom(checkpoints, df, k + 1, today, env, next,
                                        evaluated \cup {k}) :
                                next \in {Summed(results, df[k], tool_result.val)} }) :
                    tool_result \in {execute_all_checks(checkpoints, df[k], today, env).res} })

get_results(checkpoints, df, today, env) ==
    ResultsFrom(checkpoints, df, 1, today, env,
                [total_tools |-> Len(df), tool_results |-> <<>>,
                 total_successes |-> 0, total_failures |-> 0,
                 tools_with_enhanced_validation |-> 0, tools_with_legacy_fallback |-> 0,
                 vendor_statistics |-> [vendor \in {} |-> NewVendor]],
                {})

----------------------------------------------------------------------------
(* Rows, environments and checkpoints the registry is exercised with *)

Today == 10

BaseRow ==
    ("Tool_Number" :> <<"1">>) @@ ("Tool Column" :> <<"A">>)
    @@ ("Project Start Date" :> PyDate(0)) @@ ("Customer schedule" :> PyDate(12))
    @@ ("Vendor" :> Str(<<"V">>)) @@ ("Responsible User" :> Str(<<"u">>))

With(r, column, value) == (column :> value) @@ r

Without(r, column) == [c \in DOMAIN r \ {column} |-> r[c]]

RowFarSchedule == With(BaseRow, "Customer schedule", PyDate(30))

RowJustStarted == With(BaseRow, "Project Start Date", PyDate(9))

RowAtBoundary == With(BaseRow, "Project Start Date", PyDate(Today - PackageDays))

RowNoVendor == Without(BaseRow, "Vendor")

(* An empty Vendor cell is the float NaN, which str() renders as "nan" *)
NaNCell == [type |-> "float", val |-> <<"n", "a", "n">>]

RowNaNVendor == With(BaseRow, "Vendor", NaNCell)

RowUnknownVendor == With(BaseRow, "Vendor", Str(<<"x">>))

RowTextSchedule == With(BaseRow, "Customer schedule", PyStr)

RowNoUser == Without(BaseRow, "Responsible User")

RowPool ==
    { BaseRow, RowFarSchedule, RowJustStarted, RowAtBoundary, RowNoVendor, RowNaNVendor,
      RowUnknownVendor, RowTextSchedule, RowNoUser }

BatchRows == { BaseRow, RowFarSchedule, RowTextSchedule, RowNoUser }

Frames == SeqsUpTo(BatchRows, MaxRows)

ResultRows ==
    { BaseRow, RowFarSchedule, Without(RowFarSchedule, "Vendor"),
      With(RowFarSchedule, "Vendor", NaNCell) }

ResultFrames == SeqsUpTo(ResultRows, MaxRows)

Env(packages, engine, valid) ==
    [packages |-> packages, engine |-> engine, registered |-> {},
     configured |-> {<<"v">>}, valid |-> valid]

Envs ==
    { Env({<<"1">>}, "success", {<<"v">>}), Env({}, "fail", {<<"v">>}),
      Env({<<"1">>}, "raise", {<<"v">>}), Env({<<"1">>}, "success", {}) }

CustomCheckpoints ==
    { Checkpoint("Failing", 2, "custom", "true", "raise"),
      Checkpoint("Skipped", 1, "custom", "false", "pass"),
      Checkpoint("Early", 0, "custom", "true", "fail"),
      Checkpoint("Broken", 1, "custom", "raise", "pass") }

CheckpointPool ==
    CustomCheckpoints \cup {EnhancedPackageReadinessCheckpoint, EnhancedFinalReportCheckpoint}

(* Actions of the registry.  A behaviour sets the registry up and ends with *)
(* one evaluation: the evaluations leave the registry as it is, so a later *)
(* operation would find the states the set-up already reaches.             *)

Evaluations ==
    {"execute_enhanced_check", "execute_all_enhanced_checks", "get_failures", "get_results"}

SettingUp == cp_out.op \notin Evaluations

Register(checkpoint) ==
    /\ SettingUp
    /\ registered < MaxRegistered
    /\ _enhanced_checkpoints' =
           register(_enhanced_checkpoints, Stamped(checkpoint, registered + 1))
    /\ registered' = registered + 1
    /\ cp_out' = [op |-> "register"]
    /\ UNCHANGED <<cmpVars, engVars, loaderVars, mainVars, checkers>>

Unregister(checkpoint_name) ==
    /\ SettingUp
    /\ _enhanced_checkpoints' = unregister(_enhanced_checkpoints, checkpoint_name)
    /\ cp_out' = [op |-> "unregister"]
    /\ UNCHANGED <<cmpVars, engVars, loaderVars, mainVars, checkers, registered>>

Clear ==
    /\ SettingUp
    /\ _enhanced_checkpoints' = clear(_enhanced_checkpoints)
    /\ cp_out' = [op |-> "clear"]
    /\ UNCHANGED <<cmpVars, engVars, loaderVars, mainVars, checkers, registered>>

InitializeDefaults ==
    /\ SettingUp
    /\ registered + 2 <= MaxRegistered
    /\ _enhanced_checkpoints' = initialize_enhanced_defaults(_enhanced_checkpoints, registered)
    /\ registered' = registered + 2
    /\ cp_out' = [op |-> "initialize_enhanced_defaults"]
    /\ UNCHANGED <<cmpVars, engVars, loaderVars, mainVars, checkers>>

RunOne(checkpoint, r, env) ==
    /\ SettingUp
    /\ cp_out' = [op |-> "execute_enhanced_check", checkpoint |-> checkpoint, row |-> r,
                  env |-> env, out |-> execute_enhanced_check(checkpoint, r, Today, env)]
    /\ UNCHANGED <<cmpVars, engVars, loaderVars, mainVars, checkers, _enhanced_checkpoints, registered>>

RunAll(r, env) ==
    /\ SettingUp
    /\ cp_out' = [op |-> "execute_all_enhanced_checks", row |-> r, env |-> env,
                  out |-> execute_all_enhanced_checks(_enhanced_checkpoints, r, Today, env)]
    /\ UNCHANGED <<cmpVars, engVars, loaderVars, mainVars, checkers, _enhanced_checkpoints, registered>>

GetFailures(df, env) ==
    /\ SettingUp
    /\ cp_out' = [op |-> "get_failures", df |-> df, env |-> env,
                  out |-> get_failures(_enhanced_checkpoints, df, Today, env)]
    /\ UNCHANGED <<cmpVars, engVars, loaderVars, mainVars, checkers, _enhanced_checkpoints, registered>>

GetResults(df, env) ==
    /\ SettingUp
    /\ cp_out' = [op |-> "get_results", df |-> df, env |-> env,
                  out |-> get_results(_enhanced_checkpoints, df, Today, env)]
    /\ UNCHANGED <<cmpVars, engVars, loaderVars, mainVars, checkers, _enhanced_checkpoints, registered>>

(* The module registers the two default checkpoints when it is imported *)
InitCp ==
    /\ ComparerIdle
    /\ EngineIdle
    /\ LoaderIdle
    /\ MainIdle
    /\ _enhanced_checkpoints = initialize_enhanced_defaults(<<>>, 0)
    /\ registered = 2
    /\ cp_out = [op |-> "import"]
    /\ checkers = {}

NextCp ==
    \/ \E checkpoint \in CheckpointPool : Register(checkpoint)
    \/ \E checkpoint \in CheckpointPool : Unregister(checkpoint.name)
    \/ Clear
    \/ InitializeDefaults
    \/ \E checkpoint \in CheckpointPool, r \in RowPool, env \in Envs : RunOne(checkpoint, r, env)
    \/ \E r \in RowPool, env \in Envs : RunAll(r, env)
    \/ \E df \in Frames, env \in Envs : GetFailures(df, env)
    \/ \E df \in ResultFrames, env \in Envs : GetResults(df, env)

SpecCp == InitCp /\ [][NextCp]_vars

----------------------------------------------------------------------------
(* Properties of the checkpoints and their registry *)

RanOne == cp_out.op = "execute_enhanced_check"

RanAll == cp_out.op = "execute_all_enhanced_checks"

RanBatch == cp_out.op \in {"get_failures", "get_results"}

Trigger == should_check(cp_out.checkpoint, cp_out.row, Today)

Validation == execute_check(cp_out.checkpoint, cp_out.row, Today, cp_out.env).res

Invoked(what) == \E k \in 1..Len(cp_out.out.events) : cp_out.out.events[k][1] = what

(* C11: running a checkpoint on a row whose trigger is false returns       *)
(* executed = False, success = True and failures = [], and execute_check   *)
(* is not invoked.                                                         *)
C11_VacuousPass ==
    (RanOne /\ Trigger.ok /\ ~Trigger.val) =>
        /\ cp_out.out.res.ok
        /\ ~cp_out.out.res.val.executed
        /\ cp_out.out.res.val.success
        /\ cp_out.out.res.val.failures = <<>>
        /\ ~Invoked("execute_check")

RECURSIVE SumFailures(_, _)
SumFailures(results, k) ==
    IF k > Len(results) THEN 0 ELSE Len(results[k].failures) + SumFailures(results, k + 1)

(* C12: execute_all_enhanced_checks returns overall_success = False exactly *)
(* when some checkpoint whose trigger was true failed; executed_checkpoints *)
(* is the number of checkpoints whose trigger was true and total_failures   *)
(* the sum of the lengths of the failures lists of all checkpoint results.  *)
C12_Aggregates ==
    (RanAll /\ cp_out.out.res.ok) =>
        LET results == cp_out.out.res.val
            each == results.checkpoints
        IN  /\ ~results.overall_success <=>
                   \E k \in 1..Len(each) : each[k].should_check /\ ~each[k].success
            /\ results.executed_checkpoints =
                   Cardinality({k \in 1..Len(each) : each[k].should_check})
            /\ results.total_failures = SumFailures(each, 1)

(* C13: when the trigger is true and execute_check raises,                  *)
(* execute_enhanced_check returns executed = True, success = False and one  *)
(* failure record with the row's tool number and project and the exception  *)
(* text, tagged with the checkpoint name.                                   *)
C13_CapturedFailure ==
    (RanOne /\ Trigger.ok /\ Trigger.val /\ ~Validation.ok) =>
        /\ cp_out.out.res.ok
        /\ cp_out.out.res.val.executed
        /\ ~cp_out.out.res.val.success
        /\ Len(cp_out.out.res.val.failures) = 1
        /\ LET failure == cp_out.out.res.val.failures[1]
           IN  /\ failure["Tool_Number"] = cp_out.row["Tool_Number"]
               /\ failure["Project"] = cp_out.row["Tool Column"]
               /\ failure["Fail Reason"].args = <<Validation.exc, Validation.arg>>
               /\ "Checkpoint" \in DOMAIN failure
               /\ failure["Checkpoint"] = cp_out.checkpoint.name

PriorityOf(name) == (CHOOSE c \in CheckpointPool : c.name = name).priority

Asked(events) == SelectSeq(events, LAMBDA e : e[1] = "should_check")

(* C14: the registry list is always sorted by ascending priority, equal     *)
(* priorities in registration order, and execute_all_enhanced_checks asks   *)
(* the checkpoints in exactly that order: a checkpoint of lower priority    *)
(* has its trigger and its validation evaluated before one of higher        *)
(* priority.                                                                *)
C14_PriorityOrder ==
    /\ \A i, j \in 1..Len(_enhanced_checkpoints) :
          i < j =>
              \/ _enhanced_checkpoints[i].priority < _enhanced_checkpoints[j].priority
              \/ /\ _enhanced_checkpoints[i].priority = _enhanced_checkpoints[j].priority
                 /\ _enhanced_checkpoints[i].stamp < _enhanced_checkpoints[j].stamp
    /\ RanAll =>
          LET events == cp_out.out.events
              asked == Asked(events)
          IN  /\ Len(asked) <= Len(_enhanced_checkpoints)
              /\ \A k \in 1..Len(asked) : asked[k][2] = _enhanced_checkpoints[k].name
              /\ cp_out.out.res.ok => Len(asked) = Len(_enhanced_checkpoints)
              /\ \A i, j \in 1..Len(events) :
                    i < j => PriorityOf(events[i][2]) <= PriorityOf(events[j][2])

C14_Witness ==
    /\ RanAll
    /\ cp_out.out.res.ok
    /\ Len(_enhanced_checkpoints) >= 3
    /\ \E i, j \in 1..Len(_enhanced_checkpoints) :
          /\ i < j
          /\ _enhanced_checkpoints[i].priority = _enhanced_checkpoints[j].priority
          /\ _enhanced_checkpoints[i].name # _enhanced_checkpoints[j].name
    /\ Invoked("execute_check")

VendorUnsupported(r, env) ==
    \/ ~HasKey(r, "Vendor")
    \/ isna(r["Vendor"])
    \/ lower(r["Vendor"].val) \notin list_enhanced_vendors(env)

OneUnsupportedVendorFailure(failures) ==
    /\ Len(failures) = 1
    /\ failures[1]["Fail Reason"].text = "Unsupported vendor or missing vendor information"

(* C15: for a row whose Vendor is missing, NaN or in no registry, the Final *)
(* Report checkpoint returns without raising, from execute_check one        *)
(* failure record with the reason 'Unsupported vendor or missing vendor     *)
(* information' and from execute_enhanced_check executed = True, success =  *)
(* False and that one record; the validation engine is not invoked.         *)
C15_UnsupportedVendor ==
    (/\ RanOne
     /\ cp_out.checkpoint.kind = "final"
     /\ Trigger.ok /\ Trigger.val
     /\ VendorUnsupported(cp_out.row, cp_out.env)) =>
        /\ Validation.ok
        /\ OneUnsupportedVendorFailure(Validation.val)
        /\ cp_out.out.res.ok
        /\ cp_out.out.res.val.executed
        /\ ~cp_out.out.res.val.success
        /\ OneUnsupportedVendorFailure(cp_out.out.res.val.failures)
        /\ ~Invoked("engine")

(* C16: batch evaluation processes every row: an error raised while one row *)
(* is evaluated is returned as data and the remaining rows are evaluated.   *)
C16_EveryRow ==
    RanBatch =>
        /\ cp_out.out.res.ok
        /\ _enhanced_checkpoints # <<>> => cp_out.out.evaluated = 1..Len(cp_out.df)

----------------------------------------------------------------------------
(* The configuration loader: vendor_config_loader.py                        *)
(* A JSON object is a function from its keys to its values; the values the  *)
(* code tests with isinstance are typed cells.                              *)

List(items) == [type |-> "list", val |-> items]

Number == [type |-> "int", val |-> <<"5">>]

EmptyDict == [k \in {} |-> PyNone]

IsNone(v) == "type" \in DOMAIN v /\ v.type = "NoneType"

(* not v, for a dict or None *)
Falsy(v) == DOMAIN v = {} \/ IsNone(v)

dict_get(mapping, key, default) == IF key \in DOMAIN mapping THEN mapping[key] ELSE default

Loaded(res, cache) == [res |-> res, cache |-> cache]

PathError(paths, path_key) ==
    IF path_key \notin DOMAIN paths
    THEN Raise("ValueError", <<"Missing required path in paths configuration", path_key>>)
    ELSE IF paths[path_key].type # "str" \/ paths[path_key].val = <<>>
         THEN Raise("ValueError", <<"Path must be a non-empty string", path_key>>)
         ELSE Ok(None)

_validate_config_structure(document) ==
    IF "paths" \notin DOMAIN document
    THEN Raise("ValueError", <<"Configuration missing required 'paths' section">>)
    ELSE IF "vendors" \notin DOMAIN document
    THEN Raise("ValueError", <<"Configuration missing required 'vendors' section">>)
    ELSE IF ~PathError(document["paths"], "source_root").ok
    THEN PathError(document["paths"], "source_root")
    ELSE IF ~PathError(document["paths"], "target_root").ok
    THEN PathError(document["paths"], "target_root")
    ELSE IF document["vendors"].type # "dict" \/ DOMAIN document["vendors"].val = {}
    THEN Raise("ValueError", <<"Vendors section must be a non-empty dictionary">>)
    ELSE Ok(None)

(* load_config: the outcome and the cache it leaves. The cache is assigned  *)
(* from json.load before the structure is validated.                        *)
load_config_reread(file, cache) ==
    IF ~file.exists
    THEN Loaded(Raise("FileNotFoundError", <<"Configuration file not found">>), cache)
    ELSE IF ~file.json
    THEN Loaded(Raise("json.JSONDecodeError", <<"Expecting value">>), cache)
    ELSE IF ~_validate_config_structure(file.doc).ok
    THEN Loaded(_validate_config_structure(file.doc), file.doc)
    ELSE Loaded(Ok(file.doc), file.doc)

load_config(file, cache) ==
    IF IsNone(cache)
    THEN IF ~file.exists
         THEN Loaded(Raise("FileNotFoundError", <<"Configuration file not found">>), cache)
         ELSE IF ~file.json
         THEN Loaded(Raise("json.JSONDecodeError", <<"Expecting value">>), cache)
         ELSE IF ~_validate_config_structure(file.doc).ok
         THEN Loaded(_validate_config_structure(file.doc), file.doc)
         ELSE Loaded(Ok(file.doc), file.doc)
    ELSE Loaded(Ok(cache), cache)

(* config.get("vendors", {}) followed by a dict method *)
VendorsOf(document) ==
    LET vendors == dict_get(document, "vendors", Dict(EmptyDict))
    IN  IF vendors.type = "dict"
        THEN Ok(vendors.val)
        ELSE Raise("AttributeError", <<"'list' object has no attribute">>)

get_vendor_config(file, cache, vkey) ==
    LET loaded == load_config(file, cache)
    IN  IF ~loaded.res.ok THEN loaded
        ELSE IF ~VendorsOf(loaded.res.val).ok
        THEN Loaded(VendorsOf(loaded.res.val), loaded.cache)
        ELSE Loaded(Ok(dict_get(VendorsOf(loaded.res.val).val, lower(vkey), PyNone)),
                    loaded.cache)

get_global_paths(file, cache) ==
    LET loaded == load_config(file, cache)
    IN  IF ~loaded.res.ok THEN loaded
        ELSE Loaded(Ok(dict_get(loaded.res.val, "paths", EmptyDict)), loaded.cache)

(* The list of keys, as the set of its elements *)
list_vendors(file, cache) ==
    LET loaded == load_config(file, cache)
    IN  IF ~loaded.res.ok THEN loaded
        ELSE IF ~VendorsOf(loaded.res.val).ok
        THEN Loaded(VendorsOf(loaded.res.val), loaded.cache)
        ELSE Loaded(Ok(DOMAIN VendorsOf(loaded.res.val).val), loaded.cache)

DummyValues ==
    ("{source_root}" :> <<"test_source">>) @@ ("{target_root}" :> <<"test_target">>) @@
    ("{tool_number}" :> <<"T001">>) @@ ("{tool_column}" :> <<"TestProject">>)

_validate_regex_pattern(pattern) ==
    LET test_pattern == format(pattern, DummyValues)
    IN  IF ~test_pattern.ok THEN test_pattern ELSE re_compile(test_pattern.val, FALSE)

Invalid(text, vkey) == Ok(<<FALSE, Msg(text, <<vkey>>)>>)

(* lines 96-130, for a vendor configuration that was found *)
ValidateSections(vendor_config, vkey) ==
    IF \E section \in {"archive_config", "required_patterns", "bypass_rules"} :
           section \notin DOMAIN vendor_config
    THEN Invalid("Missing required section for vendor", vkey)
    ELSE IF \E field \in {"source_archive_regex", "target_archive_regex", "consistency_check"} :
                field \notin DOMAIN vendor_config["archive_config"]
    THEN Invalid("Missing required field in archive_config for vendor", vkey)
    ELSE IF \/ "enabled" \notin DOMAIN vendor_config["archive_config"]["consistency_check"]
            \/ "file_extension" \notin DOMAIN vendor_config["archive_config"]["consistency_check"]
    THEN Invalid("Invalid consistency_check configuration for vendor", vkey)
    ELSE LET source == _validate_regex_pattern(
                           vendor_config["archive_config"]["source_archive_regex"])
             target == _validate_regex_pattern(
                           vendor_config["archive_config"]["target_archive_regex"])
             tried == IF source.ok THEN target ELSE source
         IN  IF ~tried.ok
             THEN IF tried.exc = "re.error"
                  THEN Invalid("Invalid regex pattern for vendor", vkey)
                  ELSE tried
             ELSE IF \/ vendor_config["required_patterns"].type # "list"
                     \/ vendor_config["required_patterns"].val = <<>>
             THEN Invalid("required_patterns must be a non-empty list for vendor", vkey)
             ELSE IF \/ "technology_threshold" \notin DOMAIN vendor_config["bypass_rules"]
                     \/ "bypass_patterns" \notin DOMAIN vendor_config["bypass_rules"]
             THEN Invalid("Invalid bypass_rules configuration for vendor", vkey)
             ELSE Ok(<<TRUE, Msg("Configuration is valid", <<>>)>>)

validate_vendor_config(file, cache, vkey) ==
    LET found == get_vendor_config(file, cache, vkey)
    IN  IF ~found.res.ok THEN found
        ELSE IF Falsy(found.res.val)
        THEN Loaded(Invalid("Vendor not found in configuration", vkey), found.cache)
        ELSE Loaded(ValidateSections(found.res.val, vkey), found.cache)

clear_cache == PyNone

----------------------------------------------------------------------------
(* Configuration documents the loader is run on *)

GoodPaths == [source_root |-> Str(<<"s">>), target_root |-> Str(<<"t">>)]

PathsPool ==
    { GoodPaths,
      Without(GoodPaths, "target_root"),
      With(GoodPaths, "source_root", Str(<<>>)),
      With(GoodPaths, "target_root", Number),
      EmptyDict }

VendorDoc ==
    [archive_config |->
         [source_archive_regex |->
              <<"{source_root}", "/", "{tool_column}", "/", "{tool_number}", ".tar.gz", "$">>,
          target_archive_regex |->
              <<"{target_root}", "/", "{tool_column}", "/", "{tool_number}", ".tar.gz", "$">>,
          consistency_check |-> [enabled |-> TRUE, file_extension |-> <<"r">>]],
     required_patterns |-> List(<<PatConfig>>),
     bypass_rules |-> [technology_threshold |-> Threshold, bypass_patterns |-> <<SuffixAaa>>]]

UnknownPlaceholder == <<"{source_root}", "/", "{version}", "/", "x">>

VendorDocs ==
    { VendorDoc,
      Without(VendorDoc, "bypass_rules"),
      With(VendorDoc, "archive_config", Without(VendorDoc.archive_config, "target_archive_regex")),
      With(VendorDoc, "archive_config",
           With(VendorDoc.archive_config, "consistency_check", [file_extension |-> <<"r">>])),
      With(VendorDoc, "archive_config",
           With(VendorDoc.archive_config, "source_archive_regex", UnknownPlaceholder)),
      With(VendorDoc, "archive_config",
           With(VendorDoc.archive_config, "target_archive_regex", PatBad)),
      With(VendorDoc, "required_patterns", List(<<>>)),
      With(VendorDoc, "required_patterns", Dict(<<>>)),
      With(VendorDoc, "bypass_rules", [bypass_patterns |-> <<SuffixAaa>>]),
      EmptyDict }

(* JSON keys keep the letter case they are written in *)
VendorsPool ==
    { Dict(<<"x">> :> vendor_config) : vendor_config \in VendorDocs }
        \cup { Dict(<<"X">> :> VendorDoc), Dict(EmptyDict), List(<<>>) }

Documents ==
    { ("paths" :> paths) @@ ("vendors" :> vendors) :
          paths \in PathsPool, vendors \in VendorsPool }
        \cup { "paths" :> paths : paths \in PathsPool }
        \cup { "vendors" :> vendors : vendors \in VendorsPool }

ConfigFile(document) == [exists |-> TRUE, json |-> TRUE, doc |-> document]

NoFile == [exists |-> FALSE, json |-> FALSE, doc |-> EmptyDict]

NotJson == [exists |-> TRUE, json |-> FALSE, doc |-> EmptyDict]

Files == { ConfigFile(document) : document \in Documents } \cup {NoFile, NotJson}

VendorKeys == { <<"X">>, <<"x">>, <<"w">> }

----------------------------------------------------------------------------
(* One action per public method of VendorConfigLoader *)

LoaderCall(op, arg, res) == [op |-> op, arg |-> arg, res |-> res]

(* The calls in a history; a write of the file by somebody else is recorded *)
(* in the history as well and is no call                                    *)
Calls(history) == Cardinality({ i \in DOMAIN history : history[i].op # "write" })

Returns(op, arg, loaded) ==
    /\ Calls(loader_out) < MaxLoaderCalls
    /\ _config_cache' = loaded.cache
    /\ loader_out' = Append(loader_out, LoaderCall(op, arg, loaded.res))
    /\ UNCHANGED <<cmpVars, engVars, regVars, mainVars, config_file, _enhanced_rules, threads>>

LoadConfig == Returns("load_config", <<>>, load_config(config_file, _config_cache))

GetVendorConfig(vkey) ==
    Returns("get_vendor_config", vkey, get_vendor_config(config_file, _config_cache, vkey))

GetGlobalPaths ==
    Returns("get_global_paths", <<>>, get_global_paths(config_file, _config_cache))

ListVendors == Returns("list_vendors", <<>>, list_vendors(config_file, _config_cache))

ValidateVendorConfig(vkey) ==
    Returns("validate_vendor_config", vkey,
            validate_vendor_config(config_file, _config_cache, vkey))

ClearCache ==
    /\ Calls(loader_out) < MaxLoaderCalls
    /\ _config_cache' = clear_cache
    /\ _compiled_patterns' = <<>>
    /\ loader_out' = Append(loader_out, LoaderCall("clear_cache", <<>>, Ok(None)))
    /\ UNCHANGED <<cmpVars, inputVars, localVars, regVars, mainVars, config_file, pc,
                   validation_results, searched, trace, raised, _enhanced_rules, threads>>

InitLoader ==
    /\ ComparerIdle
    /\ EngineIdle
    /\ RegistryIdle
    /\ MainIdle
    /\ config_file \in Files
    /\ _config_cache = PyNone
    /\ loader_out = <<>>
    /\ _enhanced_rules = <<>>
    /\ threads = <<>>

NextLoader ==
    \/ LoadConfig
    \/ \E vkey \in VendorKeys : GetVendorConfig(vkey)
    \/ GetGlobalPaths
    \/ ListVendors
    \/ \E vkey \in VendorKeys : ValidateVendorConfig(vkey)
    \/ ClearCache

SpecLoader == InitLoader /\ [][NextLoader]_vars

----------------------------------------------------------------------------
(* Claims about the configuration loader *)

WellFormed ==
    /\ config_file.exists
    /\ config_file.json
    /\ _validate_config_structure(config_file.doc).ok

Malformed ==
    /\ config_file.exists
    /\ config_file.json
    /\ ~_validate_config_structure(config_file.doc).ok

Readers == {"load_config", "get_vendor_config", "get_global_paths", "list_vendors"}

(* C17: a document that violates the required top-level structure is never *)
(* served: every load_config, get_vendor_config, get_global_paths and       *)
(* list_vendors call on it fails, the first one and every later one.        *)
C17_NeverServed ==
    Malformed =>
        \A i \in DOMAIN loader_out :
            loader_out[i].op \in Readers => ~loader_out[i].res.ok

Fillable(template) ==
    /\ format(template, DummyValues).ok
    /\ re_compile(format(template, DummyValues).val, FALSE).ok

Complete(vendor_config) ==
    /\ ~Falsy(vendor_config)
    /\ {"archive_config", "required_patterns", "bypass_rules"} \subseteq DOMAIN vendor_config
    /\ {"source_archive_regex", "target_archive_regex", "consistency_check"}
           \subseteq DOMAIN vendor_config["archive_config"]
    /\ {"enabled", "file_extension"}
           \subseteq DOMAIN vendor_config["archive_config"]["consistency_check"]
    /\ Fillable(vendor_config["archive_config"]["source_archive_regex"])
    /\ Fillable(vendor_config["archive_config"]["target_archive_regex"])
    /\ vendor_config["required_patterns"].type = "list"
    /\ vendor_config["required_patterns"].val # <<>>
    /\ {"technology_threshold", "bypass_patterns"} \subseteq DOMAIN vendor_config["bypass_rules"]

Configured(vkey) == dict_get(config_file.doc["vendors"].val, lower(vkey), PyNone)

(* C18: on a configuration that loads, validate_vendor_config always returns *)
(* a pair (ok, message) and never raises; ok is True exactly when the vendor *)
(* is present, every required section and field is there, required_patterns *)
(* is a non-empty list and both archive regex templates can be filled with   *)
(* the dummy values and compiled.                                            *)
C18_ValidateReturns ==
    WellFormed =>
        \A i \in DOMAIN loader_out :
            loader_out[i].op = "validate_vendor_config" =>
                /\ loader_out[i].res.ok
                /\ loader_out[i].res.val[1] = Complete(Configured(loader_out[i].arg))

----------------------------------------------------------------------------
(* Claims about the statuses of a validation result *)

StepStatuses == {"PENDING", "PASS", "FAIL", "SKIPPED", "ERROR"}

PatternStatuses == {"PASS", "FAIL", "BYPASSED"}

StepNames == DOMAIN validation_results.steps

PatternStatusesHold ==
    \A i \in DOMAIN validation_results.pattern_results :
        validation_results.pattern_results[i].status \in PatternStatuses

(* C19 as claimed: in every returned result each of the five step outcomes   *)
(* has a status in {PENDING, PASS, FAIL, SKIPPED, ERROR} and every           *)
(* pattern_results entry has a status in {PASS, FAIL, BYPASSED}.             *)
C19_StatusesClaimed ==
    Returned =>
        /\ \A step \in StepNames : StatusOf(step) \in StepStatuses
        /\ PatternStatusesHold

(* C19: in every returned result archive_discovery, target_exists,           *)
(* file_consistency and pattern_validation have a status in {PENDING, PASS,  *)
(* FAIL, SKIPPED, ERROR}, bypass_applied has the status PENDING or INFO, and *)
(* every pattern_results entry has a status in {PASS, FAIL, BYPASSED}.       *)
C19_Statuses ==
    Returned =>
        /\ StepNames = {"archive_discovery", "target_exists", "file_consistency",
                        "pattern_validation", "bypass_applied"}
        /\ \A step \in StepNames \ {"bypass_applied"} : StatusOf(step) \in StepStatuses
        /\ StatusOf("bypass_applied") \in {"PENDING", "INFO"}
        /\ StatusOf("bypass_applied") = "INFO" <=> ReachedPatterns
        /\ PatternStatusesHold

C19_Witness ==
    /\ Returned
    /\ StatusOf("bypass_applied") = "INFO"
    /\ \E i \in DOMAIN validation_results.pattern_results :
           validation_results.pattern_results[i].status = "BYPASSED"
    /\ \E i \in DOMAIN validation_results.pattern_results :
           validation_results.pattern_results[i].status = "FAIL"

----------------------------------------------------------------------------
(* The command line: outsourcing_qc_system.py, with the extractor and the   *)
(* transformer it runs before the checkpoints                               *)

NaT == [type |-> "NaT", val |-> 0]

required_columns == {"Tool_Number", "Tool Column", "Customer schedule", "Responsible User"}

Coerced(r) ==
    IF r["Customer schedule"].type = "date" THEN r ELSE With(r, "Customer schedule", NaT)

get_raw_data(workbook) ==
    IF ~workbook.exists
    THEN Raise("FileNotFoundError", <<"No such file or directory">>)
    ELSE IF required_columns \ workbook.columns # {}
    THEN Raise("ValueError", <<"Missing required columns">>)
    ELSE Ok([k \in 1..Len(workbook.rows) |-> Coerced(workbook.rows[k])])

(* Days are counted from a Monday: weekday 5 and 6 are the weekend *)
weekday(date) == date % 7

(* OutsourcingQcTrans(raw_df): the default of enable_taiwan_holidays *)
enable_taiwan_holidays == TRUE

Holidays == {14}

_is_taiwan_holiday(date) == date \in Holidays

RECURSIVE WalkDays(_, _, _)
WalkDays(current_date, days_added, num_days) ==
    IF days_added >= num_days THEN current_date
    ELSE IF weekday(current_date + 1) >= 5 \/ _is_taiwan_holiday(current_date + 1)
         THEN WalkDays(current_date + 1, days_added, num_days)
         ELSE WalkDays(current_date + 1, days_added + 1, num_days)

(* pd.tseries.offsets.BDay(n): weekends only; a start on a weekend is first *)
(* rolled to the nearest business day in the direction of n, which counts   *)
(* as one of the n steps                                                    *)
RECURSIVE RollDays(_, _)
RollDays(date, direction) ==
    IF weekday(date) < 5 THEN date ELSE RollDays(date + direction, direction)

RECURSIVE StepDays(_, _, _)
StepDays(date, direction, steps) ==
    IF steps = 0 THEN date
    ELSE StepDays(RollDays(date + direction, direction), direction, steps - 1)

BDay(start_date, n) ==
    IF n = 0 THEN RollDays(start_date, 1)
    ELSE LET direction == IF n > 0 THEN 1 ELSE 0 - 1
             steps == IF n > 0 THEN n ELSE 0 - n
         IN  IF weekday(start_date) < 5
             THEN StepDays(start_date, direction, steps)
             ELSE StepDays(RollDays(start_date, direction), direction, steps - 1)

add_business_days(enable_holiday_checking, start_date, num_days) ==
    IF ~enable_holiday_checking
    THEN BDay(start_date, num_days)
    ELSE WalkDays(start_date, 0, num_days)

BusinessDays == 15

InWindow(r, today) ==
    /\ r["Customer schedule"].type = "date"
    /\ r["Customer schedule"].val >= today
    /\ r["Customer schedule"].val <=
           add_business_days(enable_taiwan_holidays, today, BusinessDays)

Started(r) ==
    With(r, "Project Start Date",
         PyDate(add_business_days(enable_taiwan_holidays, r["Customer schedule"].val,
                                  0 - BusinessDays)))

get_transformed_data(df, today) ==
    Map(SelectSeq(df, LAMBDA r : InWindow(r, today)), Started)

(* OutsourcingQcCheckPoints(trans_df).get_failures() *)
checker_get_failures(df, today, env) ==
    get_failures(initialize_enhanced_defaults(initialize_enhanced_defaults(<<>>, 0), 2),
                 df, today, env).res

----------------------------------------------------------------------------
(* Runs of the command line *)

Workbook(rows) == [exists |-> TRUE, columns |-> DOMAIN rows[1], rows |-> rows]

EmptyWorkbook == [exists |-> TRUE, columns |-> required_columns \cup {"Vendor"}, rows |-> <<>>]

NoWorkbook == [exists |-> FALSE, columns |-> {}, rows |-> <<>>]

RawRow == Without(BaseRow, "Project Start Date")

RawRows ==
    { RawRow,
      With(RawRow, "Customer schedule", PyDate(30)),
      With(RawRow, "Customer schedule", PyDate(40)),
      With(RawRow, "Customer schedule", PyStr),
      With(RawRow, "Vendor", Str(<<"W">>)) }

Workbooks ==
    { Workbook(rows) : rows \in SeqsUpTo(RawRows, MaxRows) }
        \cup { Workbook(<<Without(RawRow, column)>>) :
                   column \in {"Tool_Number", "Responsible User", "Vendor"} }
        \cup { EmptyWorkbook, NoWorkbook }

Arguments == { <<>>, <<"input.xlsx">> }

NoFrame == <<>>

Locals(df, failures, e, stdout) ==
    [df |-> df, failures |-> failures, e |-> e, stdout |-> stdout]

(* lines 12-14: parse_args exits the process with code 2 on a usage error *)
ParseArgs ==
    /\ main_pc = "start"
    /\ IF main_in.argv = <<>>
       THEN main_pc' = "exited" /\ exit_code' = 2
       ELSE main_pc' = "extract" /\ UNCHANGED exit_code
    /\ UNCHANGED <<cmpVars, engVars, regVars, loaderVars, main_in, main_locals, bday>>

Advance(next, ok, locals) ==
    /\ main_pc' = IF ok THEN next ELSE "except"
    /\ main_locals' = locals
    /\ UNCHANGED <<cmpVars, engVars, regVars, loaderVars, main_in, exit_code, bday>>

(* lines 17-20 *)
Extract ==
    /\ main_pc = "extract"
    /\ LET raw_df == get_raw_data(main_in.workbook)
       IN  Advance("transform", raw_df.ok,
                 IF raw_df.ok THEN [main_locals EXCEPT !.df = raw_df.val]
                 ELSE [main_locals EXCEPT !.e = raw_df])

(* lines 22-25 *)
Transform ==
    /\ main_pc = "transform"
    /\ Advance("check", TRUE,
             [main_locals EXCEPT !.df = get_transformed_data(main_locals.df, Today)])

(* lines 27-30 *)
Check ==
    /\ main_pc = "check"
    /\ LET failures == checker_get_failures(main_locals.df, Today, main_in.env)
       IN  Advance("print", failures.ok,
                 IF failures.ok THEN [main_locals EXCEPT !.failures = failures.val]
                 ELSE [main_locals EXCEPT !.e = failures])

(* lines 32-33 *)
PrintReport ==
    /\ main_pc = "print"
    /\ Advance("return", TRUE, [main_locals EXCEPT !.stdout = "failures"])

(* lines 35-37 *)
ExceptKnown ==
    /\ main_pc = "except"
    /\ main_locals.e.exc \in {"FileNotFoundError", "ValueError"}
    /\ Advance("return", TRUE, [main_locals EXCEPT !.stdout = "Error"])

(* lines 38-40 *)
ExceptUnexpected ==
    /\ main_pc = "except"
    /\ main_locals.e.exc \notin {"FileNotFoundError", "ValueError"}
    /\ Advance("return", TRUE, [main_locals EXCEPT !.stdout = "An unexpected error occurred"])

(* lines 42-43: main() returns and the interpreter exits with code 0 *)
Return ==
    /\ main_pc = "return"
    /\ main_pc' = "exited"
    /\ exit_code' = 0
    /\ UNCHANGED <<cmpVars, engVars, regVars, loaderVars, main_in, main_locals, bday>>

InitMain ==
    /\ ComparerIdle
    /\ EngineIdle
    /\ RegistryIdle
    /\ LoaderIdle
    /\ main_in \in [argv : Arguments, workbook : Workbooks, env : Envs]
    /\ main_pc = "start"
    /\ main_locals = Locals(NoFrame, NoFrame, NoException, "")
    /\ exit_code = None
    /\ bday = None

NextMain ==
    \/ ParseArgs
    \/ Extract
    \/ Transform
    \/ Check
    \/ PrintReport
    \/ ExceptKnown
    \/ ExceptUnexpected
    \/ Return

SpecMain == InitMain /\ [][NextMain]_vars

----------------------------------------------------------------------------
(* Claims about the command line *)

Exited == main_pc = "exited"

FatalError == main_in.argv = <<>> \/ main_locals.e # NoException

(* C20: main() exits with code 0 on a clean run and with a non-zero code    *)
(* whenever input loading, configuration loading or any other fatal error   *)
(* occurred (missing input file, missing required columns, unexpected       *)
(* exception).                                                              *)
C20_ExitCode == Exited => (exit_code = 0 <=> ~FatalError)

----------------------------------------------------------------------------
(* Claims about archive discovery *)

Substitutions ==
    ("{source_root}" :> global_paths.source_root) @@
    ("{target_root}" :> global_paths.target_root) @@
    ("{tool_number}" :> row["Tool_Number"]) @@
    ("{tool_column}" :> row["Tool Column"])

Walked(root) == rglob(root, ".tar.gz")

AnchoredAt(root, regex, k) ==
    re_match(re_compile(format(regex, Substitutions).val, FALSE).val,
             replace_backslash(Walked(root)[k].path))

ResolvedAs(root, regex, archive) ==
    IF \E k \in DOMAIN Walked(root) : AnchoredAt(root, regex, k)
    THEN \E k \in DOMAIN Walked(root) :
             /\ AnchoredAt(root, regex, k)
             /\ \A j \in 1..(k - 1) : ~AnchoredAt(root, regex, j)
             /\ archive = Walked(root)[k]
    ELSE archive = NoArchive

Discovered ==
    /\ pc \notin {"start", "archive_discovery", "raised"}
    /\ StatusOf("archive_discovery") \in {"PASS", "FAIL"}

(* C22: each side is resolved independently to the first walked *.tar.gz     *)
(* file whose separator-normalized path matches the substituted regex from   *)
(* the start of the path, to no path when the root is missing or nothing     *)
(* matches; the discovery step is FAIL exactly when a side is unresolved.    *)
C22_FirstAnchoredMatch ==
    Discovered =>
        /\ ResolvedAs(fs.source, config.archive_config.source_archive_regex, source_archive)
        /\ ResolvedAs(fs.target, config.archive_config.target_archive_regex, target_archive)
        /\ StatusOf("archive_discovery") = "FAIL" <=>
               (source_archive = NoArchive \/ target_archive = NoArchive)

(* Several files match and the first one walked, a path with a backslash, is *)
(* the one returned                                                          *)
C22_Witness ==
    /\ Discovered
    /\ Cardinality({k \in DOMAIN Walked(fs.source) :
                        AnchoredAt(fs.source, config.archive_config.source_archive_regex, k)}) > 1
    /\ source_archive = Walked(fs.source)[1]
    /\ source_archive.path # replace_backslash(source_archive.path)

(* A file whose path holds a match, but not from its start, is not returned  *)
C22_WitnessSubstring ==
    /\ Discovered
    /\ source_archive = NoArchive
    /\ target_archive # NoArchive
    /\ Walked(fs.source) # <<>>
    /\ StatusOf("archive_discovery") = "FAIL"

----------------------------------------------------------------------------
(* Claims about the pattern entries *)

EntriesWith(statuses) ==
    { i \in DOMAIN validation_results.pattern_results :
          validation_results.pattern_results[i].status \in statuses }

(* C27: in every result that reaches pattern validation pass_count +         *)
(* fail_count equals checked_patterns and pattern_results holds exactly one  *)
(* entry per required pattern: one PASS or FAIL entry per checked pattern    *)
(* and one BYPASSED entry per bypassed pattern, also when the search of the  *)
(* target archive raises part-way through the checked patterns.              *)
C27_OneEntryPerPattern ==
    ReachedPatterns =>
        /\ Stats.pass_count + Stats.fail_count = Stats.checked_patterns
        /\ Len(validation_results.pattern_results) = Len(config.required_patterns)
        /\ Cardinality(EntriesWith({"PASS", "FAIL"})) = Len(patterns_to_check)
        /\ Cardinality(EntriesWith({"BYPASSED"})) = Len(bypassed_patterns)

----------------------------------------------------------------------------
(* Claims about the order of the step outcomes *)

ReportedSteps ==
    <<"archive_discovery", "target_exists", "file_consistency", "pattern_validation">>

(* C28: the step outcomes of a returned result form a consistent prefix: a   *)
(* step has a status other than PENDING only if every earlier step is PASS   *)
(* or SKIPPED, so target_exists is PASS only if archive_discovery is PASS,   *)
(* also when an exception occurs in a later step.                            *)
C28_ConsistentPrefix ==
    Returned =>
        \A k \in DOMAIN ReportedSteps :
            StatusOf(ReportedSteps[k]) # "PENDING" =>
                \A j \in 1..(k - 1) : StatusOf(ReportedSteps[j]) \in {"PASS", "SKIPPED"}

----------------------------------------------------------------------------
(* Claims about the Package Readiness trigger *)

RanPackage ==
    /\ RanOne
    /\ cp_out.checkpoint.kind = "package"
    /\ cp_out.out.res.ok

(* C23: the Package Readiness trigger is inclusive at its boundary: the      *)
(* checkpoint is triggered if and only if today >= Project Start Date + 3    *)
(* days, so today = Project Start Date + 3 days triggers it and any earlier  *)
(* instant does not.                                                         *)
C23_InclusiveBoundary ==
    RanPackage =>
        (cp_out.out.res.val.executed <=>
             Today >= cp_out.row["Project Start Date"].val + PackageDays)

C23_Witness ==
    /\ RanPackage
    /\ Today = cp_out.row["Project Start Date"].val + PackageDays
    /\ cp_out.out.res.val.executed

----------------------------------------------------------------------------
(* Calls of the business-day calculator *)

StartDates == (Today + 4)..(Today + 4 + DaySpan)

AddBusinessDays(enable_holiday_checking, start_date, num_days) ==
    /\ bday' = [op |-> "add_business_days", enable |-> enable_holiday_checking,
                start |-> start_date, num_days |-> num_days,
                result |-> add_business_days(enable_holiday_checking, start_date, num_days)]
    /\ UNCHANGED <<cmpVars, engVars, regVars, loaderVars, main_in, main_pc, main_locals,
                   exit_code>>

(* The Project Start Date get_transformed_data gives a row *)
ProjectStartDate(schedule) ==
    /\ bday' = [op |-> "get_transformed_data", enable |-> enable_taiwan_holidays,
                start |-> schedule, num_days |-> 0 - BusinessDays,
                result |-> Started(With(RawRow, "Customer schedule", PyDate(schedule)))
                               ["Project Start Date"].val]
    /\ UNCHANGED <<cmpVars, engVars, regVars, loaderVars, main_in, main_pc, main_locals,
                   exit_code>>

InitDays ==
    /\ ComparerIdle
    /\ EngineIdle
    /\ RegistryIdle
    /\ LoaderIdle
    /\ main_in = None
    /\ main_pc = "idle"
    /\ main_locals = None
    /\ exit_code = None
    /\ bday = [op |-> "none", enable |-> FALSE, start |-> 0, num_days |-> 0, result |-> 0]

NextDays ==
    \/ \E enable_holiday_checking \in BOOLEAN, start_date \in StartDates,
           num_days \in (0 - MaxSteps)..MaxSteps :
           AddBusinessDays(enable_holiday_checking, start_date, num_days)
    \/ \E schedule \in StartDates : ProjectStartDate(schedule)

SpecDays == InitDays /\ [][NextDays]_vars

IsBusinessDay(date, enable_holiday_checking) ==
    /\ weekday(date) < 5
    /\ enable_holiday_checking => date \notin Holidays

BusinessDaysIn(first, last, enable_holiday_checking) ==
    Cardinality({ date \in first..last : IsBusinessDay(date, enable_holiday_checking) })

----------------------------------------------------------------------------
(* Claims about the summary of get_results *)

RanResults == cp_out.op = "get_results" /\ cp_out.out.res.ok

Summary == cp_out.out.res.val

RECURSIVE SumTools(_, _)
SumTools(statistics, vendors) ==
    IF vendors = {} THEN 0
    ELSE LET vendor == CHOOSE v \in vendors : TRUE
         IN  statistics[vendor].total_tools + SumTools(statistics, vendors \ {vendor})

(* C25: after get_results over a batch of rows, total_successes +            *)
(* total_failures = total_tools = number of rows; a row counts as a success  *)
(* iff its overall_success is true; for every vendor successes + failures =  *)
(* its total_tools; the vendors' total_tools sum to the number of rows; and  *)
(* tools_with_enhanced_validation + tools_with_legacy_fallback = number of   *)
(* rows.                                                                     *)
C25_SummaryAddsUp ==
    RanResults =>
        /\ Summary.total_tools = Len(cp_out.df)
        /\ Summary.total_successes + Summary.total_failures = Summary.total_tools
        /\ Len(Summary.tool_results) = Len(cp_out.df)
        /\ Summary.total_successes =
               Cardinality({ k \in DOMAIN Summary.tool_results :
                                 Summary.tool_results[k].overall_success })
        /\ \A vendor \in DOMAIN Summary.vendor_statistics :
               Summary.vendor_statistics[vendor].successes
                   + Summary.vendor_statistics[vendor].failures
                   = Summary.vendor_statistics[vendor].total_tools
        /\ SumTools(Summary.vendor_statistics, DOMAIN Summary.vendor_statistics)
               = Len(cp_out.df)
        /\ Summary.tools_with_enhanced_validation + Summary.tools_with_legacy_fallback
               = Len(cp_out.df)

C25_Witness ==
    /\ RanResults
    /\ Len(cp_out.df) = MaxRows
    /\ Cardinality(DOMAIN Summary.vendor_statistics) > 1
    /\ Summary.total_successes > 0
    /\ Summary.total_failures > 0
    /\ Summary.tools_with_enhanced_validation > 0

----------------------------------------------------------------------------
(* Keys returned by list_vendors and the calls made with them right after *)

Listed(i) ==
    /\ loader_out[i].op = "list_vendors"
    /\ loader_out[i].res.ok

AskedListed(i, op) ==
    /\ i + 1 \in DOMAIN loader_out
    /\ Listed(i)
    /\ loader_out[i + 1].op = op
    /\ loader_out[i + 1].arg \in loader_out[i].res.val

NotFound(res) == res.ok /\ res.val[2].text = "Vendor not found in configuration"

(* C29: every key that list_vendors returns resolves: get_vendor_config of  *)
(* that key returns a configuration (not None) and validate_vendor_config   *)
(* of that key does not answer "not found", whatever the letter case of the *)
(* keys in the document.                                                     *)
C29_ListedResolve ==
    \A i \in DOMAIN loader_out :
        /\ AskedListed(i, "get_vendor_config") =>
               loader_out[i + 1].res.ok /\ ~IsNone(loader_out[i + 1].res.val)
        /\ AskedListed(i, "validate_vendor_config") => ~NotFound(loader_out[i + 1].res)

----------------------------------------------------------------------------
(* vendor_rules.py: the rule registry over the configuration loader.  A    *)
(* rule keeps the vendor section and the global paths it was built with.   *)

Rules(res, cache, rules) == [res |-> res, cache |-> cache, rules |-> rules]

(* EnhancedVendorRuleStrategy.__init__, from what its three calls of the   *)
(* loader returned                                                         *)
RuleFrom(vkey, found, paths, valid) ==
        IF ~found.res.ok THEN found
        ELSE IF ~paths.res.ok THEN paths
        ELSE IF Falsy(found.res.val)
        THEN Loaded(Raise("ValueError", <<"No configuration found for vendor", vkey>>),
                    paths.cache)
        ELSE IF ~valid.res.ok THEN valid
        ELSE IF ~valid.res.val[1]
        THEN Loaded(Raise("ValueError", <<"Invalid configuration for vendor", vkey>>),
                    valid.cache)
        ELSE Loaded(Ok([vendor_key |-> vkey, config |-> found.res.val,
                        global_paths |-> paths.res.val]), valid.cache)

GenericEnhancedVendorRule(file, cache, vkey) ==
    Only({ Only({ Only({ RuleFrom(vkey, found, paths, valid) :
                             valid \in {validate_vendor_config(file, paths.cache, vkey)} }) :
                      paths \in {get_global_paths(file, found.cache)} }) :
               found \in {get_vendor_config(file, cache, vkey)} })

(* The rest of _get_enhanced_rule_generic once the key was not found in    *)
(* _enhanced_rules: the rule is stored under the key and read back         *)
StoredRule(rules, vkey, found, built) ==
        IF ~found.res.ok THEN Rules(found.res, found.cache, rules)
        ELSE IF Falsy(found.res.val) THEN Rules(Ok(PyNone), found.cache, rules)
        ELSE IF built.res.ok
        THEN Rules(built.res, built.cache, (vkey :> built.res.val) @@ rules)
        ELSE IF built.res.exc = "ValueError" THEN Rules(Ok(PyNone), built.cache, rules)
        ELSE Rules(built.res, built.cache, rules)

BuiltRule(file, cache, rules, vkey) ==
    Only({ Only({ StoredRule(rules, vkey, found, built) :
                      built \in {GenericEnhancedVendorRule(file, found.cache, vkey)} }) :
               found \in {get_vendor_config(file, cache, vkey)} })

_get_enhanced_rule_generic(file, cache, rules, vkey) ==
    IF lower(vkey) \in DOMAIN rules THEN Rules(Ok(rules[lower(vkey)]), cache, rules)
    ELSE BuiltRule(file, cache, rules, lower(vkey))

----------------------------------------------------------------------------
(* The loader and the rule registry while the configuration file changes *)

DocA == ("paths" :> GoodPaths) @@ ("vendors" :> Dict(<<"x">> :> VendorDoc))

DocB ==
    ("paths" :> With(GoodPaths, "target_root", Str(<<"s">>)))
    @@ ("vendors" :> Dict(<<"x">> :> With(VendorDoc, "required_patterns", List(<<PatTool>>))))

DocNoPaths == "vendors" :> Dict(<<"x">> :> VendorDoc)

CacheFiles == { ConfigFile(DocA), ConfigFile(DocB), ConfigFile(DocNoPaths) }

CacheKeys == { <<"X">> }

CachePatterns == { PatConfig }

WriteFile(file) ==
    /\ Len(loader_out) - Calls(loader_out) < MaxWrites
    /\ file # config_file
    /\ config_file' = file
    /\ loader_out' = Append(loader_out, LoaderCall("write", <<>>, Ok(None)))
    /\ UNCHANGED <<cmpVars, engVars, regVars, mainVars, _config_cache, _enhanced_rules, threads>>

CompileRegexPattern(pattern) ==
    \E compiled \in {compile_regex_pattern(_compiled_patterns, pattern, DummyValues)} :
        /\ Calls(loader_out) < MaxLoaderCalls
        /\ _compiled_patterns' = compiled.cache
        /\ loader_out' = Append(loader_out,
                                LoaderCall("compile_regex_pattern", pattern, compiled.res))
        /\ UNCHANGED <<cmpVars, inputVars, localVars, regVars, mainVars, config_file,
                       _config_cache, pc, validation_results, searched, trace, raised,
                       _enhanced_rules, threads>>

GetEnhancedRule(vkey) ==
    \E got \in {_get_enhanced_rule_generic(config_file, _config_cache, _enhanced_rules, vkey)} :
        /\ Calls(loader_out) < MaxLoaderCalls
        /\ _config_cache' = got.cache
        /\ _enhanced_rules' = got.rules
        /\ loader_out' = Append(loader_out,
                                LoaderCall("get_enhanced_rule", vkey, got.res))
        /\ UNCHANGED <<cmpVars, engVars, regVars, mainVars, config_file, threads>>

(* EnhancedVendorRuleRegistry.clear_cache *)
RegistryClearCache ==
    /\ Calls(loader_out) < MaxLoaderCalls
    /\ _enhanced_rules' = <<>>
    /\ _config_cache' = clear_cache
    /\ _compiled_patterns' = <<>>
    /\ loader_out' = Append(loader_out, LoaderCall("registry.clear_cache", <<>>, Ok(None)))
    /\ UNCHANGED <<cmpVars, inputVars, localVars, regVars, mainVars, config_file, pc,
                   validation_results, searched, trace, raised, threads>>

InitCache ==
    /\ ComparerIdle
    /\ EngineIdle
    /\ RegistryIdle
    /\ MainIdle
    /\ config_file \in CacheFiles
    /\ _config_cache = PyNone
    /\ loader_out = <<>>
    /\ _enhanced_rules = <<>>
    /\ threads = <<>>

NextCache ==
    \/ LoadConfig
    \/ \E vkey \in CacheKeys : GetVendorConfig(vkey)
    \/ GetGlobalPaths
    \/ ListVendors
    \/ ClearCache
    \/ \E file \in CacheFiles : WriteFile(file)
    \/ \E pattern \in CachePatterns : CompileRegexPattern(pattern)
    \/ \E vkey \in CacheKeys : GetEnhancedRule(vkey)
    \/ RegistryClearCache

SpecCache == InitCache /\ [][NextCache]_vars

----------------------------------------------------------------------------
(* Claims about the caches *)

Clears == {"clear_cache", "registry.clear_cache"}

(* What a reading method returns for a file and a cache *)
Read(op, arg, file, cache) ==
    CASE op = "load_config" -> load_config(file, cache).res
      [] op = "get_vendor_config" -> get_vendor_config(file, cache, arg).res
      [] op = "get_global_paths" -> get_global_paths(file, cache).res
      [] op = "list_vendors" -> list_vendors(file, cache).res

LoadedAt(i) == loader_out[i].op = "load_config" /\ loader_out[i].res.ok

NotClearedBetween(i, j) == \A k \in (i + 1)..(j - 1) : loader_out[k].op \notin Clears

WrittenBetween(i, j) == \E k \in (i + 1)..(j - 1) : loader_out[k].op = "write"

(* A reading call made while the document loaded by call i is cached *)
ServedAfter(i, j) ==
    /\ i < j
    /\ LoadedAt(i)
    /\ NotClearedBetween(i, j)
    /\ loader_out[j].op \in Readers

(* The last call of the history, made right after a clear_cache *)
FirstAfterClear(ops) ==
    /\ Len(loader_out) > 1
    /\ loader_out[Len(loader_out) - 1].op \in Clears
    /\ loader_out[Len(loader_out)].op \in ops

LastCall == loader_out[Len(loader_out)]

(* C21: the configuration is read at most once between invalidations.      *)
(* After a successful load_config every later load_config,                 *)
(* get_vendor_config, get_global_paths and list_vendors returns what the   *)
(* loaded document gives, without reading the file, also when the file has *)
(* changed; right after a clear_cache both caches are empty, and the next  *)
(* access returns what the file holds now, read and validated again; right *)
(* after EnhancedVendorRuleRegistry.clear_cache no rule is cached either   *)
(* and the next get_enhanced_rule builds its rule from the file as it is   *)
(* now.                                                                    *)
C21_ReadOncePerInvalidation ==
    /\ \A i, j \in DOMAIN loader_out :
           ServedAfter(i, j) =>
               loader_out[j].res =
                   Read(loader_out[j].op, loader_out[j].arg, NoFile, loader_out[i].res.val)
    /\ (loader_out # <<>> /\ LastCall.op \in Clears) =>
           IsNone(_config_cache) /\ _compiled_patterns = <<>>
    /\ (loader_out # <<>> /\ LastCall.op = "registry.clear_cache") => _enhanced_rules = <<>>
    /\ FirstAfterClear(Readers) =>
           LastCall.res = Read(LastCall.op, LastCall.arg, config_file, PyNone)
    /\ (FirstAfterClear({"get_enhanced_rule"})
            /\ loader_out[Len(loader_out) - 1].op = "registry.clear_cache") =>
           LastCall.res =
               _get_enhanced_rule_generic(config_file, PyNone, <<>>, LastCall.arg).res

(* A rule was built, the file was rewritten, the registry cleared, and the *)
(* next get_enhanced_rule returned a rule that differs from the first one  *)
C21_Witness ==
    /\ Len(loader_out) > 1
    /\ loader_out[1].op = "get_enhanced_rule"
    /\ loader_out[1].res.ok
    /\ ~IsNone(loader_out[1].res.val)
    /\ loader_out[2].op = "write"
    /\ FirstAfterClear({"get_enhanced_rule"})
    /\ LastCall.res.ok
    /\ ~IsNone(LastCall.res.val)
    /\ LastCall.res # loader_out[1].res

(* A document was loaded, the file was rewritten, and a later read still   *)
(* returned the loaded document                                            *)
C21_WitnessStale ==
    \E i, j \in DOMAIN loader_out :
        /\ ServedAfter(i, j)
        /\ WrittenBetween(i, j)
        /\ loader_out[j].op = "load_config"
        /\ loader_out[j].res.ok
        /\ loader_out[j].res.val # config_file.doc

(* A compiled pattern was cached and clear_cache dropped it *)
C21_WitnessCompiled ==
    /\ Len(loader_out) > 1
    /\ loader_out[Len(loader_out) - 1].op = "compile_regex_pattern"
    /\ loader_out[Len(loader_out) - 1].res.ok
    /\ LastCall.op = "clear_cache"

(* After a clear_cache the rewritten file was read and rejected *)
C21_WitnessRevalidated ==
    /\ loader_out # <<>>
    /\ LoadedAt(1)
    /\ FirstAfterClear(Readers)
    /\ ~LastCall.res.ok

----------------------------------------------------------------------------
(* Two rows evaluated at the same time.  Each evaluation is the part of    *)
(* the Final Report checkpoint that touches what the rows share:           *)
(* _get_vendor_key lists the vendors (load_config), then get_enhanced_rule *)
(* looks the rule up and builds it when it is missing.  A step is one read *)
(* or write of _config_cache or _enhanced_rules.                           *)

Threads == {1, 2}

ParFiles == CacheFiles \cup {NoFile}

ParVendors == { <<"X">>, <<"w">> }

At(t, where) == threads[t].pc = where

Goto(t, where) == threads' = [threads EXCEPT ![t].pc = where]

Finish(t, out) == threads' = [threads EXCEPT ![t].pc = "done", ![t].out = out]

(* list_enhanced_vendors takes the registered keys, then load_config tests *)
(* the cache                                                               *)
LcTest(t) ==
    /\ At(t, "lc_test")
    /\ threads' = [threads EXCEPT
                       ![t].registered = DOMAIN _enhanced_rules,
                       ![t].pc = IF IsNone(_config_cache) THEN "lc_read" ELSE "lc_return"]
    /\ UNCHANGED <<cmpVars, engVars, regVars, mainVars, config_file, _config_cache,
                   loader_out, _enhanced_rules>>

(* open and json.load, assigned to _config_cache *)
LcRead(t) ==
    /\ At(t, "lc_read")
    /\ IF ~config_file.exists
       THEN /\ Finish(t, Raise("FileNotFoundError", <<"Configuration file not found">>))
            /\ UNCHANGED _config_cache
       ELSE IF ~config_file.json
       THEN /\ Finish(t, Raise("json.JSONDecodeError", <<"Expecting value">>))
            /\ UNCHANGED _config_cache
       ELSE /\ _config_cache' = config_file.doc
            /\ Goto(t, "lc_validate")
    /\ UNCHANGED <<cmpVars, engVars, regVars, mainVars, config_file, loader_out,
                   _enhanced_rules>>

LcValidate(t) ==
    /\ At(t, "lc_validate")
    /\ IF _validate_config_structure(_config_cache).ok
       THEN Goto(t, "lc_return")
       ELSE Finish(t, _validate_config_structure(_config_cache))
    /\ UNCHANGED <<cmpVars, engVars, regVars, mainVars, config_file, _config_cache,
                   loader_out, _enhanced_rules>>

(* load_config returns _config_cache; _get_vendor_key looks the vendor up *)
LcReturn(t) ==
    /\ At(t, "lc_return")
    /\ \E listed \in {list_vendors(config_file, _config_cache).res} :
           IF ~listed.ok THEN Finish(t, listed)
           ELSE IF lower(threads[t].vendor) \notin threads[t].registered \cup listed.val
           THEN Finish(t, VendorRuleRegistry)
           ELSE Goto(t, "rule_test")
    /\ UNCHANGED <<cmpVars, engVars, regVars, mainVars, config_file, _config_cache,
                   loader_out, _enhanced_rules>>

RuleTest(t) ==
    /\ At(t, "rule_test")
    /\ IF lower(threads[t].vendor) \in DOMAIN _enhanced_rules
       THEN Finish(t, Ok(_enhanced_rules[lower(threads[t].vendor)]))
       ELSE Goto(t, "construct")
    /\ UNCHANGED <<cmpVars, engVars, regVars, mainVars, config_file, _config_cache,
                   loader_out, _enhanced_rules>>

ConstructRule(t) ==
    /\ At(t, "construct")
    /\ \E built \in {BuiltRule(config_file, _config_cache, <<>>, lower(threads[t].vendor))} :
           /\ IF built.res.ok /\ ~IsNone(built.res.val)
              THEN threads' = [threads EXCEPT ![t].pc = "store", ![t].rule = built.res.val]
              ELSE Finish(t, built.res)
           /\ _config_cache' = built.cache
    /\ UNCHANGED <<cmpVars, engVars, regVars, mainVars, config_file, loader_out,
                   _enhanced_rules>>

Store(t) ==
    /\ At(t, "store")
    /\ _enhanced_rules' = (lower(threads[t].vendor) :> threads[t].rule) @@ _enhanced_rules
    /\ Finish(t, Ok(threads[t].rule))
    /\ UNCHANGED <<cmpVars, engVars, regVars, mainVars, config_file, _config_cache,
                   loader_out>>

InitPar ==
    /\ ComparerIdle
    /\ EngineIdle
    /\ RegistryIdle
    /\ MainIdle
    /\ config_file \in ParFiles
    /\ _config_cache = PyNone
    /\ loader_out = <<>>
    /\ _enhanced_rules = <<>>
    /\ \E vendors \in [Threads -> ParVendors] :
           threads = [t \in Threads |->
                         [pc |-> "lc_test", vendor |-> vendors[t], registered |-> {},
                          rule |-> PyNone, out |-> None]]

NextPar ==
    \E t \in Threads :
        \/ LcTest(t)
        \/ LcRead(t)
        \/ LcValidate(t)
        \/ LcReturn(t)
        \/ RuleTest(t)
        \/ ConstructRule(t)
        \/ Store(t)

SpecPar == InitPar /\ [][NextPar]_vars

(* The same evaluation made alone, from a cache and a rule table *)
EvaluatedFrom(file, rules, vendor, listed) ==
    IF ~listed.res.ok THEN Rules(listed.res, listed.cache, rules)
    ELSE IF lower(vendor) \notin DOMAIN rules \cup listed.res.val
    THEN Rules(VendorRuleRegistry, listed.cache, rules)
    ELSE _get_enhanced_rule_generic(file, listed.cache, rules, lower(vendor))

Evaluated(file, cache, rules, vendor) ==
    Only({ EvaluatedFrom(file, rules, vendor, listed) : listed \in {list_vendors(file, cache)} })

(* The outcomes of the two rows when first is evaluated before second *)
OneAfterTheOther(first, second) ==
    Only({ Only({ (first :> a.res) @@ (second :> b.res) :
                      b \in {Evaluated(config_file, a.cache, a.rules,
                                       threads[second].vendor)} }) :
               a \in {Evaluated(config_file, PyNone, <<>>, threads[first].vendor)} })

BothDone == \A t \in Threads : At(t, "done")

Interleaved == [t \in Threads |-> threads[t].out]

(* C26: two rows evaluated concurrently over the same rule registry and    *)
(* configuration loader get the outcomes they get when the rows are        *)
(* evaluated one after the other, in one of the two orders.                *)
C26_AsSequential ==
    BothDone => Interleaved \in {OneAfterTheOther(1, 2), OneAfterTheOther(2, 1)}

----------------------------------------------------------------------------
(* OutsourcingQcCheckPoints instances over CheckpointRegistry.  The class  *)
(* CheckpointRegistry keeps its checkpoints in a class attribute, like     *)
(* EnhancedCheckpointRegistry; its defaults are Package Readiness and      *)
(* Final Report.                                                           *)

PackageReadinessCheckpoint == Checkpoint("Package Readiness", 1, "package", "date", "glob")

FinalReportCheckpoint == Checkpoint("Final Report", 2, "final", "date", "vendor")

initialize_defaults_keep(checkpoints) ==
    register(register(checkpoints, PackageReadinessCheckpoint), FinalReportCheckpoint)

initialize_defaults(checkpoints) ==
    register(register(clear(checkpoints), PackageReadinessCheckpoint), FinalReportCheckpoint)

list_checkpoints(checkpoints) == [k \in 1..Len(checkpoints) |-> checkpoints[k].name]

MaxCheckers == 2

Checkers == 1..MaxCheckers

AddedCheckpoints ==
    { Checkpoint("Quality Assurance", 3, "custom", "true", "pass"),
      Checkpoint("Early", 0, "custom", "true", "fail") }

RemovedNames == {"Package Readiness", "Quality Assurance"}

(* OutsourcingQcCheckPoints(df): replaced is the registry the constructor found *)
Construct(checker) ==
    /\ checker \notin checkers
    /\ checkers' = checkers \cup {checker}
    /\ _enhanced_checkpoints' = initialize_defaults(_enhanced_checkpoints)
    /\ cp_out' = [op |-> "construct", checker |-> checker,
                  replaced |-> _enhanced_checkpoints]
    /\ UNCHANGED <<cmpVars, engVars, loaderVars, mainVars, registered>>

AddCheckpoint(checker, checkpoint) ==
    /\ checker \in checkers
    /\ Len(_enhanced_checkpoints) < MaxRegistered
    /\ _enhanced_checkpoints' = register(_enhanced_checkpoints, checkpoint)
    /\ cp_out' = [op |-> "add_checkpoint", checker |-> checker]
    /\ UNCHANGED <<cmpVars, engVars, loaderVars, mainVars, registered, checkers>>

RemoveCheckpoint(checker, checkpoint_name) ==
    /\ checker \in checkers
    /\ _enhanced_checkpoints' = unregister(_enhanced_checkpoints, checkpoint_name)
    /\ cp_out' = [op |-> "remove_checkpoint", checker |-> checker]
    /\ UNCHANGED <<cmpVars, engVars, loaderVars, mainVars, registered, checkers>>

ListCheckpoints(checker) ==
    /\ checker \in checkers
    /\ cp_out' = [op |-> "list_checkpoints", checker |-> checker,
                  out |-> list_checkpoints(_enhanced_checkpoints)]
    /\ UNCHANGED <<cmpVars, engVars, loaderVars, mainVars, registered, checkers,
                   _enhanced_checkpoints>>

(* The module is imported: the registry holds its defaults, no checker yet *)
InitChk ==
    /\ ComparerIdle
    /\ EngineIdle
    /\ LoaderIdle
    /\ MainIdle
    /\ _enhanced_checkpoints = initialize_defaults(<<>>)
    /\ registered = 2
    /\ cp_out = [op |-> "import"]
    /\ checkers = {}

NextChk ==
    \/ \E checker \in Checkers : Construct(checker)
    \/ \E checker \in Checkers, checkpoint \in AddedCheckpoints :
           AddCheckpoint(checker, checkpoint)
    \/ \E checker \in Checkers, checkpoint_name \in RemovedNames :
           RemoveCheckpoint(checker, checkpoint_name)
    \/ \E checker \in Checkers : ListCheckpoints(checker)
    \/ \E checkpoint \in AddedCheckpoints : Register(checkpoint)
    \/ \E checkpoint_name \in RemovedNames : Unregister(checkpoint_name)
    \/ Clear

SpecChk == InitChk /\ [][NextChk]_vars

Defaults == <<"Package Readiness", "Final Report">>

C30_WitnessShared ==
    /\ cp_out.op = "list_checkpoints"
    /\ Cardinality(checkers) = MaxCheckers
    /\ \E k \in DOMAIN cp_out.out : cp_out.out[k] = "Quality Assurance"

====
